---- MODULE Spec2Model ----
(***************************************************************************)
(* Authentication, session and lockout core of smart-stock-bot             *)
(* (apps/api/app/services/auth.py and apps/api/app/api/v1/auth.py).        *)
(*                                                                         *)
(* The store (PostgreSQL behind SQLAlchemy) is the variables users,        *)
(* sessions, backup_codes, audit.  Every HTTP request runs in a slot of    *)
(* req with its own ORM session: the rows it loaded (orig), the values it  *)
(* assigned (cur), the rows it added and has not committed (pending,       *)
(* new_exp).  A handler is cut at its awaits on the store: one action per  *)
(* piece between two awaits, so that requests interleave exactly where     *)
(* the code lets them.  The specifications over Serial serve one request   *)
(* at a time; those over Procs let two requests interleave.                *)
(***************************************************************************)
EXTENDS Integers, Sequences, FiniteSets, TLC

\* ---------------------------------------------------------------- constants
MAX_FAILED_ATTEMPTS == 5
LOCKOUT_DURATION_MINUTES == 30
SESSION_LIFETIME_MINUTES == 10080
RESET_VALIDITY_MINUTES == 60
BACKUP_CODE_COUNT == 10
ENTITLEMENTS_TTL_SECONDS == 300
window_size == 60

\* ------------------------------------------------------------------- bounds
MaxSessions == 3
MaxResets == 2
MaxSkew == 30
MaxResetClock == 90
MaxBatches == 2
ElapseStep == 150
MaxSince == 300
MaxOrders == 2
\* RateLimitMiddleware.max_requests, settings.RATE_LIMIT_PER_MINUTE, scaled down.
max_requests == 2
WallStep == 20
MaxWall == 80
MaxArrivals == 4

\* Request slots: Serial serves one request at a time, Procs two at once.
Procs == {1, 2}
Serial == {1}
UserIds == {1, 2, 3}
Emails == {"a@x", "b@x", "deleted_3@deleted.local", "nobody@x"}
Passwords == {"good", "bad"}
NewPasswords == {"new1", "new2"}
TickSteps == {LOCKOUT_DURATION_MINUTES, SESSION_LIFETIME_MINUTES}
NoCode == ""
TotpCodes == {"111111", "222222", "000000"}
Secrets == {"S1", "S2"}
MfaCodes == TotpCodes \cup {"BK1", "bk1", "NOPE"}
NULL == -1

\* ------------------------------------------------------------ secret codec
\* app.core.security is not part of the sources: the codec is modelled from
\* its contract (one-way, injective, verified by recomputation).
NoHash == 0
HashOffset == 1000

hash_token(t) == HashOffset + t

hash_password(p) == <<"pw", p>>

verify_password(p, h) == h = hash_password(p)

\* The code that is current for a secret.
TotpOf(secret) == IF secret = "S2" THEN "111111" ELSE "222222"

verify_totp(secret, code) == secret \in Secrets /\ code = TotpOf(secret)

encrypt_field(s) == IF s = "S1" THEN "enc:S1" ELSE IF s = "S2" THEN "enc:S2" ELSE ""

decrypt_field(e) == IF e = "enc:S1" THEN "S1" ELSE IF e = "enc:S2" THEN "S2" ELSE ""

\* generate_backup_codes draws codes never drawn before: the batches it can return.
BackupBatches ==
    <<<<"G1A", "G1B", "G1C", "G1D", "G1E", "G1F", "G1G", "G1H", "G1I", "G1J">>,
      <<"G2A", "G2B", "G2C", "G2D", "G2E", "G2F", "G2G", "G2H", "G2I", "G2J">>,
      <<"G3A", "G3B", "G3C", "G3D", "G3E", "G3F", "G3G", "G3H", "G3I", "G3J">>,
      <<"G4A", "G4B", "G4C", "G4D", "G4E", "G4F", "G4G", "G4H", "G4I", "G4J">>>>

generate_backup_codes(count, n) == {BackupBatches[n][k] : k \in 1..count}

IsDigits6(code) == code \in TotpCodes

Upper(code) == IF code = "bk1" THEN "BK1" ELSE code

VARIABLES now, users, sessions, backup_codes, audit, outbox, reset_seq, req,
          plans, subs, cache, processed, since, breq,
          approved, placed, orders,
          hits, expires_at, wall, admitted, lreq

authVars == <<now, users, sessions, backup_codes, audit, outbox, reset_seq, req>>

\* The billing store (plans, subs), Redis (cache, processed), the requests of
\* the billing and entitlement handlers (breq), and since: the seconds elapsed
\* since a user's subscription row last changed (a history variable).
billVars == <<plans, subs, cache, processed, since, breq>>

\* Trading: the users an administrator has approved for live trading
\* (User.live_trading_approved), the orders the broker has accepted, and the
\* rows of the orders table.
tradeVars == <<approved, placed, orders>>
limitVars == <<hits, expires_at, wall, admitted, lreq>>

vars == <<authVars, billVars, tradeVars, limitVars>>

\* ------------------------------------------------------------------- rows
\* models/user.py User: the columns the handlers read or write.
NewUser(email, mfa) ==
    [email |-> email, deleted |-> FALSE, password_hash |-> hash_password("good"),
     mfa_enabled |-> mfa, mfa_secret |-> IF mfa THEN encrypt_field("S2") ELSE "",
     is_locked |-> FALSE, failed_login_attempts |-> 0, locked_until |-> NULL,
     last_login_at |-> NULL,
     password_reset_token |-> NoHash, password_reset_sent_at |-> NULL]

NoUser == [email |-> "", deleted |-> TRUE, password_hash |-> <<"pw", "">>,
           mfa_enabled |-> FALSE, mfa_secret |-> "",
           is_locked |-> FALSE, failed_login_attempts |-> 0, locked_until |-> NULL,
           last_login_at |-> NULL,
           password_reset_token |-> NoHash, password_reset_sent_at |-> NULL]

\* models/user.py Session
NewSession(uid, tok, exp) ==
    [user_id |-> uid, refresh_token_hash |-> hash_token(tok),
     is_revoked |-> FALSE, is_used |-> FALSE, expires_at |-> exp]

\* models/user.py AuditLog
AuditRec(uid, action, ok) == [user_id |-> uid, action |-> action, success |-> ok]

\* One request slot: the handler's position and its ORM session.
Idle ==
    [pc |-> "idle", op |-> "none", email |-> "", password |-> "", code |-> NoCode,
     token |-> 0, uid |-> 0, orig |-> NoUser, cur |-> NoUser, sid |-> 0,
     seen |-> {}, new_exp |-> NULL, bk |-> hash_password(""), gen |-> 0,
     pending |-> {}, unlocked |-> FALSE, path |-> "", status |-> 0, detail |-> "", issued |-> 0,
     new_password |-> "", access |-> "", loaded_revoked |-> FALSE, actor |-> 0, listed |-> {},
     draw |-> "", new_codes |-> {}, doomed |-> {}]

\* ------------------------------------------------------------ billing rows
\* The users that take part in billing, and the plans scripts/seed_plans.py
\* stores ("starter" is left out: it differs from "pro" in feature values only).
Payers == {1, 2}
Catalog == {"free", "pro"}
Statuses == {"active", "past_due", "canceled", "trialing", "paused"}

\* The Stripe subscription a checkout session of user u pays for.
SubOf(u) == IF u = 1 THEN "sub_1" ELSE "sub_2"
SubIds == {SubOf(u) : u \in Payers}

\* models/billing.py UserSubscription (user_id is unique: one row per user).
NoSub ==
    [exists |-> FALSE, plan_id |-> "", status |-> "", stripe_subscription_id |-> "",
     cancel_at_period_end |-> FALSE]

NewSubscription(plan_id, sub_id) ==
    [exists |-> TRUE, plan_id |-> plan_id, status |-> "active",
     stripe_subscription_id |-> sub_id, cancel_at_period_end |-> FALSE]

\* models/billing.py PlanFeature rows of a plan, as the dictionary
\* get_entitlements builds from them.
PlanFeatures(plan_id) ==
    IF plan_id = "pro"
    THEN [live_trading_enabled |-> "true", signal_delay_minutes |-> "0",
          max_watchlist_symbols |-> "999999", daily_api_requests |-> "10000",
          realtime_alerts_enabled |-> "true", backtest_enabled |-> "true",
          paper_trading_enabled |-> "true", priority_support |-> "true",
          custom_strategies_enabled |-> "true"]
    ELSE [live_trading_enabled |-> "false", signal_delay_minutes |-> "15",
          max_watchlist_symbols |-> "5", daily_api_requests |-> "100",
          realtime_alerts_enabled |-> "false", backtest_enabled |-> "false",
          paper_trading_enabled |-> "true"]

\* The defaults get_entitlements falls back to when no "free" plan is stored.
HardcodedFree ==
    [live_trading_enabled |-> "false", signal_delay_minutes |-> "15",
     max_watchlist_symbols |-> "5", daily_api_requests |-> "100",
     realtime_alerts_enabled |-> "false"]

\* The value under entitlements:{user_id}: the JSON text of plan_name and
\* features (a dictionary of strings, which json.loads gives back as it was)
\* and the seconds the key has left to live.
NoFeatures == [k \in {} |-> ""]
NoEntry == [plan_name |-> "", features |-> NoFeatures, ttl |-> 0]
Entry(plan_name, features, ttl) == [plan_name |-> plan_name, features |-> features, ttl |-> ttl]

\* One slot of a billing or entitlement request.
BIdle ==
    [pc |-> "idle", op |-> "none", uid |-> 0, event |-> "", type |-> "", sub_id |-> "",
     plan_id |-> "", status_in |-> "", cape |-> FALSE, mode |-> "",
     row |-> 0, orig |-> NoSub, cur |-> NoSub, insert |-> FALSE,
     plan_name |-> "", features |-> NoFeatures, status |-> 0, detail |-> ""]

InitAuth ==
    /\ now = 0
    /\ users = [u \in UserIds |->
                  IF u = 1 THEN NewUser("a@x", FALSE)
                  ELSE IF u = 2 THEN NewUser("b@x", TRUE)
                  ELSE [NewUser("deleted_3@deleted.local", FALSE) EXCEPT !.deleted = TRUE]]
    /\ sessions = <<>>
    /\ backup_codes = [u \in UserIds |->
                         IF u = 2 THEN {[code_hash |-> hash_password("BK1"), is_used |-> FALSE],
                                        [code_hash |-> hash_password("BK2"), is_used |-> FALSE]}
                         ELSE {}]
    /\ audit = {}
    /\ outbox = {}
    /\ reset_seq = 0
    /\ req = [p \in Procs |-> Idle]

\* The billing store after scripts/seed_plans.py: user 2 subscribes to "pro",
\* user 1 has no subscription row; Redis is empty.
InitBilling ==
    /\ subs = [u \in Payers |-> IF u = 2 THEN NewSubscription("pro", SubOf(2)) ELSE NoSub]
    /\ cache = [u \in Payers |-> NoEntry]
    /\ processed = {}
    /\ since = [u \in Payers |-> 0]
    /\ breq = [p \in Procs |-> BIdle]

InitTrading == placed = <<>> /\ orders = <<>>

\* One pass of a request through RateLimitMiddleware.
LIdle == [pc |-> "idle", current_time |-> 0, request_count |-> 0, status |-> 0, path |-> ""]

\* Redis holds no rate-limit key; time.time() is at the start of the run.
InitLimiter ==
    /\ hits = {} /\ expires_at = NULL /\ wall = 0
    /\ admitted = <<>>
    /\ lreq = [p \in Procs |-> LIdle]

Init ==
    /\ InitAuth /\ plans = Catalog /\ InitBilling /\ approved = {} /\ InitTrading
    /\ InitLimiter

\* ------------------------------------------------------------ ORM session
\* AsyncSession.commit: the UPDATE carries only the columns whose value differs
\* from the value this session loaded; the other columns keep what the store holds.
Flush(db, o, c) == [f \in DOMAIN db |-> IF c[f] # o[f] THEN c[f] ELSE db[f]]

\* select(User).where(User.email == email, User.deleted_at.is_(None)); 0 is None.
LookupUser(email) ==
    IF \E u \in UserIds : users[u].email = email /\ ~users[u].deleted
    THEN CHOOSE u \in UserIds : users[u].email = email /\ ~users[u].deleted
    ELSE 0

\* Mutant: the lookup forgets the is_revoked filter.
LookupSessionAnyState(h, live_only) ==
    LET hit == {i \in 1..Len(sessions) : sessions[i].refresh_token_hash = h}
    IN IF hit = {} THEN 0 ELSE CHOOSE i \in hit : TRUE

\* select(Session).where(refresh_token_hash == h [, is_revoked == False]); 0 is None.
LookupSession(h, live_only) ==
    LET hit == {i \in 1..Len(sessions) :
                   /\ sessions[i].refresh_token_hash = h
                   /\ (live_only => ~sessions[i].is_revoked)}
    IN IF hit = {} THEN 0 ELSE CHOOSE i \in hit : TRUE

\* The request ends: the response goes out and get_db closes the ORM session,
\* which drops whatever was added and never committed.
Respond(r, path, status, detail, issued) ==
    [r EXCEPT !.pc = "done", !.path = path, !.status = status, !.detail = detail,
              !.issued = issued, !.pending = {}]

\* The token response of login, mfa/verify and refresh: a signed access token
\* in the body and the raw refresh token in the cookie.
TokenPair(r, path, tok) == [Respond(r, path, 200, "ok", tok) EXCEPT !.access = "jwt"]

InFlight == {q \in Procs : req[q].pc \notin {"idle", "done"}}

CanStart(p) == req[p].pc = "idle"

\* ------------------------------------------------------------------ clock
\* datetime.utcnow() in minutes. The clock moves in steps of a lockout period or
\* of a session lifetime, and a request is served within one step: no request
\* is between two of its awaits when the clock moves.
Tick ==
    /\ InFlight = {}
    /\ \E d \in TickSteps :
          /\ d = LOCKOUT_DURATION_MINUTES => (now % SESSION_LIFETIME_MINUTES) + d <= MaxSkew
          /\ d = SESSION_LIFETIME_MINUTES => now < SESSION_LIFETIME_MINUTES
          /\ now' = now + d
    /\ UNCHANGED billVars
    /\ UNCHANGED tradeVars
    /\ UNCHANGED limitVars
    /\ UNCHANGED <<users, sessions, backup_codes, audit, outbox, reset_seq, req>>

Room == Len(sessions) + Cardinality(InFlight) < MaxSessions

\* ------------------------------------------------------------------ login
StartLogin(p, emails, passwords, codes) ==
    /\ CanStart(p)
    /\ Room
    /\ \E e \in emails, pw \in passwords, c \in codes :
          req' = [req EXCEPT ![p] = [Idle EXCEPT !.pc = "a_fetch", !.op = "login",
                                       !.email = e, !.password = pw, !.code = c]]
    /\ UNCHANGED billVars
    /\ UNCHANGED tradeVars
    /\ UNCHANGED limitVars
    /\ UNCHANGED <<now, users, sessions, backup_codes, audit, outbox, reset_seq>>

\* A login request that presents the account's current password.
StartLoginMatching(p, emails, codes) ==
    /\ CanStart(p)
    /\ Room
    /\ \E e \in emails, pw \in Passwords \cup NewPasswords, c \in codes :
          /\ LookupUser(e) # 0
          /\ verify_password(pw, users[LookupUser(e)].password_hash)
          /\ req' = [req EXCEPT ![p] = [Idle EXCEPT !.pc = "a_fetch", !.op = "login",
                                          !.email = e, !.password = pw, !.code = c]]
    /\ UNCHANGED billVars
    /\ UNCHANGED tradeVars
    /\ UNCHANGED limitVars
    /\ UNCHANGED <<now, users, sessions, backup_codes, audit, outbox, reset_seq>>

\* Mutant: the comparison with the clock is turned around.
LockRunningInverted(u, t) == u.is_locked /\ u.locked_until # NULL /\ u.locked_until < t

\* authenticate_user, "Check if account is locked": the lock is still running.
LockRunning(u, t) == u.is_locked /\ u.locked_until # NULL /\ u.locked_until > t

\* Mutant: the unlock forgets to reset the counter.
UnlockedKeepsCount(u) == [u EXCEPT !.is_locked = FALSE, !.locked_until = NULL]

\* authenticate_user, "Unlock account".
Unlocked(u) ==
    [u EXCEPT !.is_locked = FALSE, !.locked_until = NULL, !.failed_login_attempts = 0]

\* Mutant: the threshold test is > where the code has >=.
FailedAttemptOffByOne(u, t) ==
    LET n == u.failed_login_attempts + 1
    IN IF n > MAX_FAILED_ATTEMPTS
       THEN [u EXCEPT !.failed_login_attempts = n, !.is_locked = TRUE,
                      !.locked_until = t + LOCKOUT_DURATION_MINUTES]
       ELSE [u EXCEPT !.failed_login_attempts = n]

\* authenticate_user, the password mismatch branch: count, lock at the threshold.
FailedAttempt(u, t) ==
    LET n == u.failed_login_attempts + 1
    IN IF n >= MAX_FAILED_ATTEMPTS
       THEN [u EXCEPT !.failed_login_attempts = n, !.is_locked = TRUE,
                      !.locked_until = t + LOCKOUT_DURATION_MINUTES]
       ELSE [u EXCEPT !.failed_login_attempts = n]

\* authenticate_user, "Verify password" up to the commit that follows it.
VerifyStep(r, t) ==
    IF ~verify_password(r.password, r.cur.password_hash)
    THEN [r EXCEPT !.pc = "a_commit_fail", !.cur = FailedAttempt(r.cur, t)]
    ELSE [r EXCEPT !.pc = "a_commit_ok", !.cur.failed_login_attempts = 0]

\* Mutant: a locked account gets an answer of its own.
LoginRejectedLeaky(r, path) ==
    IF path = "account_locked"
    THEN Respond(r, path, 403, "Account is temporarily locked. Please try again later.", 0)
    ELSE Respond(r, path, 401, "Invalid email or password", 0)

\* The 401 of the login endpoint, raised when authenticate_user returns no user.
LoginRejected(r, path) == Respond(r, path, 401, "Invalid email or password", 0)

\* authenticate_user from the SELECT to the first commit (or the early return).
AFetch(p) ==
    /\ req[p].pc = "a_fetch"
    /\ LET r == req[p]
           u == LookupUser(r.email)
       IN req' = [req EXCEPT ![p] =
            IF u = 0
            THEN LoginRejected(r, "user_not_found")
            ELSE LET l == [r EXCEPT !.uid = u, !.orig = users[u], !.cur = users[u]]
                 IN IF users[u].is_locked
                    THEN IF LockRunning(users[u], now)
                         THEN LoginRejected(l, "account_locked")
                         ELSE [l EXCEPT !.pc = "a_unlock", !.cur = Unlocked(users[u])]
                    ELSE VerifyStep(l, now)]
    /\ UNCHANGED billVars
    /\ UNCHANGED tradeVars
    /\ UNCHANGED limitVars
    /\ UNCHANGED <<now, users, sessions, backup_codes, audit, outbox, reset_seq>>

\* The commit of the lazy unlock, then the password check.
AUnlock(p) ==
    /\ req[p].pc = "a_unlock"
    /\ LET r == req[p]
       IN /\ users' = [users EXCEPT ![r.uid] = Flush(@, r.orig, r.cur)]
          /\ req' = [req EXCEPT ![p] = VerifyStep([r EXCEPT !.orig = r.cur, !.unlocked = TRUE], now)]
    /\ UNCHANGED billVars
    /\ UNCHANGED tradeVars
    /\ UNCHANGED limitVars
    /\ UNCHANGED <<now, sessions, backup_codes, audit, outbox, reset_seq>>

\* The commit of the failed attempt; the audit row is added after it and the
\* request ends with the 401.
ACommitFail(p) ==
    /\ req[p].pc = "a_commit_fail"
    /\ LET r == req[p]
       IN /\ users' = [users EXCEPT ![r.uid] = Flush(@, r.orig, r.cur)]
          /\ req' = [req EXCEPT ![p] =
                LoginRejected([r EXCEPT !.orig = r.cur], "invalid_password")]
    /\ UNCHANGED billVars
    /\ UNCHANGED tradeVars
    /\ UNCHANGED limitVars
    /\ UNCHANGED <<now, sessions, backup_codes, audit, outbox, reset_seq>>

\* verify_mfa_and_complete_login up to its first await.
MfaEntry(r, t) ==
    IF ~r.cur.mfa_enabled \/ r.cur.mfa_secret = ""
    THEN Respond(r, "mfa_not_enabled", 401, "MFA is not enabled", 0)
    ELSE IF IsDigits6(r.code) /\ verify_totp(decrypt_field(r.cur.mfa_secret), r.code)
         THEN [r EXCEPT !.pc = "m_commit_totp", !.cur.last_login_at = t]
         ELSE [r EXCEPT !.pc = "m_backup"]

\* Mutant: the answer that asks for the MFA code already carries an access token.
RequiresMfaWithToken(r) ==
    [Respond(r, "requires_mfa", 200, "requires_mfa", 0) EXCEPT !.access = "jwt"]

\* login, "MFA code required but not provided": requires_mfa, an empty access
\* token, no cookie.
RequiresMfa(r) == Respond(r, "requires_mfa", 200, "requires_mfa", 0)

\* The commit of the counter reset; then MFA or the last_login_at stamp.
ACommitOk(p) ==
    /\ req[p].pc = "a_commit_ok"
    /\ LET r == [req[p] EXCEPT !.orig = req[p].cur]
       IN /\ users' = [users EXCEPT ![r.uid] = Flush(@, req[p].orig, req[p].cur)]
          /\ req' = [req EXCEPT ![p] =
                IF r.cur.mfa_enabled
                THEN IF r.code # NoCode
                     THEN MfaEntry(r, now)
                     ELSE RequiresMfa(r)
                ELSE [r EXCEPT !.pc = "a_commit_login", !.cur.last_login_at = now]]
    /\ UNCHANGED billVars
    /\ UNCHANGED tradeVars
    /\ UNCHANGED limitVars
    /\ UNCHANGED <<now, sessions, backup_codes, audit, outbox, reset_seq>>

\* create_session up to its commit: the Session row is built and added.
BuildSession(r, t) == [r EXCEPT !.pc = "cs_commit", !.new_exp = t + SESSION_LIFETIME_MINUTES]

\* The commit of last_login_at; the "login" audit row is added, create_session starts.
ACommitLogin(p) ==
    /\ req[p].pc = "a_commit_login"
    /\ LET r == req[p]
       IN /\ users' = [users EXCEPT ![r.uid] = Flush(@, r.orig, r.cur)]
          /\ req' = [req EXCEPT ![p] =
                BuildSession([r EXCEPT !.orig = r.cur,
                                       !.pending = @ \cup {AuditRec(r.uid, "login", TRUE)}], now)]
    /\ UNCHANGED billVars
    /\ UNCHANGED tradeVars
    /\ UNCHANGED limitVars
    /\ UNCHANGED <<now, sessions, backup_codes, audit, outbox, reset_seq>>

\* create_session's commit: the new Session row and every pending row are stored.
CsCommit(p) ==
    /\ req[p].pc = "cs_commit"
    /\ LET r == req[p]
           tok == Len(sessions) + 1
       IN /\ sessions' = Append(sessions, NewSession(r.uid, tok, r.new_exp))
          /\ users' = [users EXCEPT ![r.uid] = Flush(@, r.orig, r.cur)]
          /\ audit' = audit \cup r.pending
          /\ req' = [req EXCEPT ![p] = TokenPair(r, IF r.path = "" THEN "login_ok" ELSE r.path, tok)]
    /\ UNCHANGED billVars
    /\ UNCHANGED tradeVars
    /\ UNCHANGED limitVars
    /\ UNCHANGED <<now, backup_codes, outbox, reset_seq>>

\* -------------------------------------------------------------------- MFA
StartMfaVerify(p) ==
    /\ CanStart(p)
    /\ Room
    /\ \E e \in Emails, c \in MfaCodes :
          req' = [req EXCEPT ![p] = [Idle EXCEPT !.pc = "v_fetch", !.op = "mfa_verify",
                                       !.email = e, !.code = c]]
    /\ UNCHANGED billVars
    /\ UNCHANGED tradeVars
    /\ UNCHANGED limitVars
    /\ UNCHANGED <<now, users, sessions, backup_codes, audit, outbox, reset_seq>>

\* The mfa/verify endpoint: the user SELECT, then verify_mfa_and_complete_login.
VFetch(p) ==
    /\ req[p].pc = "v_fetch"
    /\ LET r == req[p]
           u == LookupUser(r.email)
       IN req' = [req EXCEPT ![p] =
            IF u = 0
            THEN Respond(r, "user_not_found", 401, "Invalid credentials", 0)
            ELSE MfaEntry([r EXCEPT !.uid = u, !.orig = users[u], !.cur = users[u]], now)]
    /\ UNCHANGED billVars
    /\ UNCHANGED tradeVars
    /\ UNCHANGED limitVars
    /\ UNCHANGED <<now, users, sessions, backup_codes, audit, outbox, reset_seq>>

\* The commit after a valid TOTP code, the audit row, then create_session.
MCommitTotp(p) ==
    /\ req[p].pc = "m_commit_totp"
    /\ LET r == req[p]
       IN /\ users' = [users EXCEPT ![r.uid] = Flush(@, r.orig, r.cur)]
          /\ req' = [req EXCEPT ![p] =
                BuildSession([r EXCEPT !.orig = r.cur, !.path = "mfa_totp",
                                       !.pending = @ \cup {AuditRec(r.uid, "login_mfa_success", TRUE)}], now)]
    /\ UNCHANGED billVars
    /\ UNCHANGED tradeVars
    /\ UNCHANGED limitVars
    /\ UNCHANGED <<now, sessions, backup_codes, audit, outbox, reset_seq>>

\* Mutant: the SELECT forgets the is_used filter.
AllCodes(codes) == codes

\* select(MFABackupCode).where(user_id == user.id, is_used == False)
UnusedCodes(codes) == {b \in codes : ~b.is_used}

\* Mutant: a code that matches nothing is counted like a wrong password.
MBackupCounting(p) ==
    /\ req[p].pc = "m_backup"
    /\ LET r == req[p]
           unused == UnusedCodes(backup_codes[r.uid])
           hit == {b \in unused : verify_password(Upper(r.code), b.code_hash)}
       IN IF hit # {}
          THEN /\ req' = [req EXCEPT ![p] =
                     [r EXCEPT !.pc = "m_commit_backup", !.bk = (CHOOSE b \in hit : TRUE).code_hash,
                               !.cur.last_login_at = now]]
               /\ UNCHANGED users
          ELSE /\ req' = [req EXCEPT ![p] = Respond(r, "mfa_failed", 401, "Invalid MFA code", 0)]
               /\ users' = [users EXCEPT ![r.uid] = FailedAttempt(@, now)]
    /\ UNCHANGED billVars
    /\ UNCHANGED tradeVars
    /\ UNCHANGED limitVars
    /\ UNCHANGED <<now, sessions, backup_codes, audit, outbox, reset_seq>>

\* The SELECT of the unused backup codes and the scan for a match.
MBackup(p) ==
    /\ req[p].pc = "m_backup"
    /\ LET r == req[p]
           unused == UnusedCodes(backup_codes[r.uid])
           hit == {b \in unused : verify_password(Upper(r.code), b.code_hash)}
       IN req' = [req EXCEPT ![p] =
            IF hit # {}
            THEN [r EXCEPT !.pc = "m_commit_backup", !.bk = (CHOOSE b \in hit : TRUE).code_hash,
                           !.cur.last_login_at = now]
            ELSE Respond(r, "mfa_failed", 401, "Invalid MFA code", 0)]
    /\ UNCHANGED billVars
    /\ UNCHANGED tradeVars
    /\ UNCHANGED limitVars
    /\ UNCHANGED <<now, users, sessions, backup_codes, audit, outbox, reset_seq>>

\* The commit after a backup-code match: the code row is marked used.
MCommitBackup(p) ==
    /\ req[p].pc = "m_commit_backup"
    /\ LET r == req[p]
       IN /\ users' = [users EXCEPT ![r.uid] = Flush(@, r.orig, r.cur)]
          /\ backup_codes' = [backup_codes EXCEPT ![r.uid] =
                {IF b.code_hash = r.bk THEN [b EXCEPT !.is_used = TRUE] ELSE b : b \in @}]
          /\ req' = [req EXCEPT ![p] =
                BuildSession([r EXCEPT !.orig = r.cur, !.path = "mfa_backup",
                                       !.pending = @ \cup {AuditRec(r.uid, "login_mfa_backup_code_used", TRUE)}], now)]
    /\ UNCHANGED billVars
    /\ UNCHANGED tradeVars
    /\ UNCHANGED limitVars
    /\ UNCHANGED <<now, sessions, audit, outbox, reset_seq>>

\* ---------------------------------------------------------------- refresh
StartRefresh(p) ==
    /\ CanStart(p)
    /\ Room
    /\ \E t \in 0..Len(sessions) :
          req' = [req EXCEPT ![p] = [Idle EXCEPT !.pc = "r_fetch", !.op = "refresh", !.token = t]]
    /\ UNCHANGED billVars
    /\ UNCHANGED tradeVars
    /\ UNCHANGED limitVars
    /\ UNCHANGED <<now, users, sessions, backup_codes, audit, outbox, reset_seq>>

\* Mutant: the reuse check runs before the expiry check.
RFetchReuseFirst(p) ==
    /\ req[p].pc = "r_fetch"
    /\ LET r == req[p]
           i == LookupSession(hash_token(r.token), TRUE)
       IN req' = [req EXCEPT ![p] =
            IF i = 0
            THEN Respond(r, "invalid", 401, "Invalid refresh token", 0)
            ELSE IF sessions[i].is_used
            THEN [r EXCEPT !.pc = "r_revoke_read", !.sid = i, !.uid = sessions[i].user_id]
            ELSE IF now > sessions[i].expires_at
            THEN Respond(r, "expired", 401, "Refresh token has expired", 0)
            ELSE [r EXCEPT !.pc = "r_get_user", !.sid = i, !.uid = sessions[i].user_id]]
    /\ UNCHANGED billVars
    /\ UNCHANGED tradeVars
    /\ UNCHANGED limitVars
    /\ UNCHANGED <<now, users, sessions, backup_codes, audit, outbox, reset_seq>>

\* refresh_session from the Session SELECT to its next await.
RFetch(p) ==
    /\ req[p].pc = "r_fetch"
    /\ LET r == req[p]
           i == LookupSession(hash_token(r.token), TRUE)
       IN req' = [req EXCEPT ![p] =
            IF i = 0
            THEN Respond(r, "invalid", 401, "Invalid refresh token", 0)
            ELSE IF now > sessions[i].expires_at
            THEN Respond(r, "expired", 401, "Refresh token has expired", 0)
            ELSE IF sessions[i].is_used
            THEN [r EXCEPT !.pc = "r_revoke_read", !.sid = i, !.uid = sessions[i].user_id]
            ELSE [r EXCEPT !.pc = "r_get_user", !.sid = i, !.uid = sessions[i].user_id]]
    /\ UNCHANGED billVars
    /\ UNCHANGED tradeVars
    /\ UNCHANGED limitVars
    /\ UNCHANGED <<now, users, sessions, backup_codes, audit, outbox, reset_seq>>

\* Mutant: the SELECT stops at the user's first session.
LiveSessionsOfFirst(uid) ==
    {i \in 1..Len(sessions) :
        /\ sessions[i].user_id = uid /\ ~sessions[i].is_revoked
        /\ \A j \in 1..(i - 1) : sessions[j].user_id # uid}

\* _revoke_all_user_sessions: the SELECT of the user's sessions not yet revoked.
LiveSessionsOf(uid) ==
    {i \in 1..Len(sessions) : sessions[i].user_id = uid /\ ~sessions[i].is_revoked}

\* Mutant: only one of the rows the SELECT returned is set revoked.
RevokeOne(ss, seen) ==
    [i \in 1..Len(ss) |->
        IF seen # {} /\ i = (CHOOSE j \in seen : \A k \in seen : j <= k)
        THEN [ss[i] EXCEPT !.is_revoked = TRUE] ELSE ss[i]]

\* _revoke_all_user_sessions: the rows the SELECT returned are set revoked.
RevokeAll(ss, seen) ==
    [i \in 1..Len(ss) |-> IF i \in seen THEN [ss[i] EXCEPT !.is_revoked = TRUE] ELSE ss[i]]

RRevokeRead(p) ==
    /\ req[p].pc = "r_revoke_read"
    /\ req' = [req EXCEPT ![p].pc = "r_revoke_commit", ![p].seen = LiveSessionsOf(req[p].uid)]
    /\ UNCHANGED billVars
    /\ UNCHANGED tradeVars
    /\ UNCHANGED limitVars
    /\ UNCHANGED <<now, users, sessions, backup_codes, audit, outbox, reset_seq>>

\* The commit of the revocation, then the reuse error of the endpoint.
RRevokeCommit(p) ==
    /\ req[p].pc = "r_revoke_commit"
    /\ sessions' = RevokeAll(sessions, req[p].seen)
    /\ req' = [req EXCEPT ![p] =
          Respond(req[p], "reuse", 401, "Token reuse detected. All sessions have been revoked.", 0)]
    /\ UNCHANGED billVars
    /\ UNCHANGED tradeVars
    /\ UNCHANGED limitVars
    /\ UNCHANGED <<now, users, backup_codes, audit, outbox, reset_seq>>

\* db.get(User, session.user_id), then create_session builds the successor row.
RGetUser(p) ==
    /\ req[p].pc = "r_get_user"
    /\ req' = [req EXCEPT ![p] = [BuildSession(req[p], now) EXCEPT !.pc = "r_commit"]]
    /\ UNCHANGED billVars
    /\ UNCHANGED tradeVars
    /\ UNCHANGED limitVars
    /\ UNCHANGED <<now, users, sessions, backup_codes, audit, outbox, reset_seq>>

\* Mutant: the successor row is stored, the is_used mark is not.
LeaveUnused(ss, i) == ss

\* refresh_session, "Mark current token as used", as the commit stores it.
MarkUsed(ss, i) == [ss EXCEPT ![i].is_used = TRUE]

\* create_session's commit inside refresh_session: the is_used mark and the
\* successor row are stored by the same transaction.
RCommit(p) ==
    /\ req[p].pc = "r_commit"
    /\ LET r == req[p]
           tok == Len(sessions) + 1
       IN /\ sessions' = Append(MarkUsed(sessions, r.sid), NewSession(r.uid, tok, r.new_exp))
          /\ req' = [req EXCEPT ![p] = TokenPair(r, "refreshed", tok)]
    /\ UNCHANGED billVars
    /\ UNCHANGED tradeVars
    /\ UNCHANGED limitVars
    /\ UNCHANGED <<now, users, backup_codes, audit, outbox, reset_seq>>

\* ----------------------------------------------------------------- logout
\* The refresh_token cookie of the request: a token, or NULL without cookie.
StartLogout(p) ==
    /\ CanStart(p)
    /\ \E t \in {NULL} \cup 0..Len(sessions) :
          req' = [req EXCEPT ![p] = [Idle EXCEPT !.pc = "o_fetch", !.op = "logout", !.token = t]]
    /\ UNCHANGED billVars
    /\ UNCHANGED tradeVars
    /\ UNCHANGED limitVars
    /\ UNCHANGED <<now, users, sessions, backup_codes, audit, outbox, reset_seq>>

\* Mutant: a token without Session row is answered with an error.
LoggedOutStrict(r, path) ==
    IF path = "revoked"
    THEN Respond(r, path, 200, "Logged out successfully", 0)
    ELSE Respond(r, path, 404, "Session not found", 0)

\* The logout endpoint answers the same whether or not the token is known.
LoggedOut(r, path) == Respond(r, path, 200, "Logged out successfully", 0)

OFetch(p) ==
    /\ req[p].pc = "o_fetch"
    /\ LET r == req[p]
           i == LookupSession(hash_token(r.token), FALSE)
       IN req' = [req EXCEPT ![p] =
            IF r.token = NULL THEN LoggedOut(r, "no_cookie")
            ELSE IF i = 0 THEN LoggedOut(r, "unknown")
            ELSE [r EXCEPT !.pc = "o_commit", !.sid = i, !.uid = sessions[i].user_id,
                           !.loaded_revoked = sessions[i].is_revoked]]
    /\ UNCHANGED billVars
    /\ UNCHANGED tradeVars
    /\ UNCHANGED limitVars
    /\ UNCHANGED <<now, users, sessions, backup_codes, audit, outbox, reset_seq>>

\* Mutant: logout flips the flag it loaded, so a second logout clears it.
OCommitToggling(p) ==
    /\ req[p].pc = "o_commit"
    /\ sessions' = [sessions EXCEPT ![req[p].sid].is_revoked = ~req[p].loaded_revoked]
    /\ req' = [req EXCEPT ![p] = LoggedOut(req[p], "revoked")]
    /\ UNCHANGED billVars
    /\ UNCHANGED tradeVars
    /\ UNCHANGED limitVars
    /\ UNCHANGED <<now, users, backup_codes, audit, outbox, reset_seq>>

\* The commit of is_revoked; the "logout" audit row is added after it.
OCommit(p) ==
    /\ req[p].pc = "o_commit"
    /\ sessions' = [sessions EXCEPT ![req[p].sid].is_revoked = TRUE]
    /\ req' = [req EXCEPT ![p] = LoggedOut(req[p], "revoked")]
    /\ UNCHANGED billVars
    /\ UNCHANGED tradeVars
    /\ UNCHANGED limitVars
    /\ UNCHANGED <<now, users, backup_codes, audit, outbox, reset_seq>>

\* --------------------------------------------------------- password reset
StartForgot(p) ==
    /\ CanStart(p)
    /\ reset_seq + Cardinality(InFlight) < MaxResets
    /\ \E e \in Emails :
          req' = [req EXCEPT ![p] = [Idle EXCEPT !.pc = "f_fetch", !.op = "forgot", !.email = e]]
    /\ UNCHANGED billVars
    /\ UNCHANGED tradeVars
    /\ UNCHANGED limitVars
    /\ UNCHANGED <<now, users, sessions, backup_codes, audit, outbox, reset_seq>>

\* Mutant: an unknown email is answered with an error.
ForgotAnswerLeaky(r, path) ==
    IF path = "no_user"
    THEN Respond(r, path, 404, "User not found", 0)
    ELSE Respond(r, path, 200, "If the email exists, a password reset link has been sent", 0)

\* The forgot-password endpoint's only answer.
ForgotAnswer(r, path) ==
    Respond(r, path, 200, "If the email exists, a password reset link has been sent", 0)

\* Mutant: a pending reset token is kept; the new one is only mailed.
FFetchKeepsPending(p) ==
    /\ req[p].pc = "f_fetch"
    /\ LET r == req[p]
           u == LookupUser(r.email)
           t == reset_seq + 1
       IN IF u = 0
          THEN /\ req' = [req EXCEPT ![p] = ForgotAnswer(r, "no_user")]
               /\ UNCHANGED reset_seq
          ELSE /\ req' = [req EXCEPT ![p] =
                     [r EXCEPT !.pc = "f_commit", !.uid = u, !.orig = users[u], !.gen = t,
                               !.cur = [users[u] EXCEPT
                                          !.password_reset_token =
                                              IF @ = NoHash THEN hash_token(t) ELSE @,
                                          !.password_reset_sent_at = now]]]
               /\ reset_seq' = t
    /\ UNCHANGED billVars
    /\ UNCHANGED tradeVars
    /\ UNCHANGED limitVars
    /\ UNCHANGED <<now, users, sessions, backup_codes, audit, outbox>>

\* initiate_password_reset up to its commit; generate_secure_token draws a token
\* never issued before.
FFetch(p) ==
    /\ req[p].pc = "f_fetch"
    /\ LET r == req[p]
           u == LookupUser(r.email)
           t == reset_seq + 1
       IN IF u = 0
          THEN /\ req' = [req EXCEPT ![p] = ForgotAnswer(r, "no_user")]
               /\ UNCHANGED reset_seq
          ELSE /\ req' = [req EXCEPT ![p] =
                     [r EXCEPT !.pc = "f_commit", !.uid = u, !.orig = users[u], !.gen = t,
                               !.cur = [users[u] EXCEPT !.password_reset_token = hash_token(t),
                                                        !.password_reset_sent_at = now]]]
               /\ reset_seq' = t
    /\ UNCHANGED billVars
    /\ UNCHANGED tradeVars
    /\ UNCHANGED limitVars
    /\ UNCHANGED <<now, users, sessions, backup_codes, audit, outbox>>

\* The commit of the hashed token, then the reset email with the raw token.
FCommit(p) ==
    /\ req[p].pc = "f_commit"
    /\ LET r == req[p]
       IN /\ users' = [users EXCEPT ![r.uid] = Flush(@, r.orig, r.cur)]
          /\ outbox' = outbox \cup {[to |-> r.cur.email, kind |-> "reset", token |-> r.gen]}
          /\ req' = [req EXCEPT ![p] = ForgotAnswer([r EXCEPT !.orig = r.cur], "sent")]
    /\ UNCHANGED billVars
    /\ UNCHANGED tradeVars
    /\ UNCHANGED limitVars
    /\ UNCHANGED <<now, sessions, backup_codes, audit, reset_seq>>

\* --------------------------------------------------------- MFA management
\* A request that carries a bearer token of user a (get_current_user decodes it).
StartEnable(p) ==
    /\ CanStart(p)
    /\ \E a \in UserIds, pw \in Passwords, s \in Secrets :
          req' = [req EXCEPT ![p] = [Idle EXCEPT !.pc = "u_fetch", !.op = "mfa_enable",
                                       !.actor = a, !.password = pw, !.draw = s]]
    /\ UNCHANGED billVars
    /\ UNCHANGED tradeVars
    /\ UNCHANGED limitVars
    /\ UNCHANGED <<now, users, sessions, backup_codes, audit, outbox, reset_seq>>

StartConfirm(p) ==
    /\ CanStart(p)
    /\ \E a \in UserIds, c \in TotpCodes :
          req' = [req EXCEPT ![p] = [Idle EXCEPT !.pc = "u_fetch", !.op = "mfa_confirm",
                                       !.actor = a, !.code = c]]
    /\ UNCHANGED billVars
    /\ UNCHANGED tradeVars
    /\ UNCHANGED limitVars
    /\ UNCHANGED <<now, users, sessions, backup_codes, audit, outbox, reset_seq>>

StartDisable(p) ==
    /\ CanStart(p)
    /\ \E a \in UserIds, pw \in Passwords, c \in TotpCodes :
          req' = [req EXCEPT ![p] = [Idle EXCEPT !.pc = "u_fetch", !.op = "mfa_disable",
                                       !.actor = a, !.password = pw, !.code = c]]
    /\ UNCHANGED billVars
    /\ UNCHANGED tradeVars
    /\ UNCHANGED limitVars
    /\ UNCHANGED <<now, users, sessions, backup_codes, audit, outbox, reset_seq>>

\* The 400 of the MFA endpoints.
BadRequest(r, path, detail) == Respond(r, path, 400, detail, 0)

\* The first batch none of whose codes the user holds.
FreshBatch(uid) ==
    CHOOSE n \in 1..Len(BackupBatches) :
        /\ \A b \in backup_codes[uid] :
              b.code_hash \notin {hash_password(c) : c \in generate_backup_codes(BACKUP_CODE_COUNT, n)}
        /\ \A m \in 1..(n - 1) :
              \E b \in backup_codes[uid] :
                 b.code_hash \in {hash_password(c) : c \in generate_backup_codes(BACKUP_CODE_COUNT, m)}

\* The enable endpoint's checks, then enable_mfa up to its commit.
EnableEntry(r) ==
    IF ~verify_password(r.password, r.cur.password_hash)
    THEN BadRequest(r, "bad_password", "Invalid password")
    ELSE IF r.cur.mfa_enabled
    THEN BadRequest(r, "already_enabled", "MFA is already enabled")
    ELSE [r EXCEPT !.pc = "e_commit", !.cur.mfa_secret = encrypt_field(r.draw),
                   !.new_codes = {[code_hash |-> hash_password(c), is_used |-> FALSE] :
                                     c \in generate_backup_codes(BACKUP_CODE_COUNT, FreshBatch(r.uid))}]

\* Mutant: confirm_mfa does not verify the code.
ConfirmEntryUnchecked(r) ==
    IF r.cur.mfa_secret = ""
    THEN BadRequest(r, "not_initiated", "MFA setup not initiated")
    ELSE [r EXCEPT !.pc = "k_commit", !.cur.mfa_enabled = TRUE]

\* confirm_mfa up to its commit.
ConfirmEntry(r) ==
    IF r.cur.mfa_secret = ""
    THEN BadRequest(r, "not_initiated", "MFA setup not initiated")
    ELSE IF ~verify_totp(decrypt_field(r.cur.mfa_secret), r.code)
    THEN BadRequest(r, "bad_code", "Invalid MFA code")
    ELSE [r EXCEPT !.pc = "k_commit", !.cur.mfa_enabled = TRUE]

\* The disable endpoint's checks, then disable_mfa up to its DELETE.
DisableEntry(r) ==
    IF ~verify_password(r.password, r.cur.password_hash)
    THEN BadRequest(r, "bad_password", "Invalid password")
    ELSE IF ~r.cur.mfa_enabled
    THEN BadRequest(r, "not_enabled", "MFA is not enabled")
    ELSE IF ~verify_totp(decrypt_field(r.cur.mfa_secret), r.code)
    THEN BadRequest(r, "bad_code", "Invalid MFA code")
    ELSE [r EXCEPT !.pc = "d_delete", !.cur.mfa_enabled = FALSE, !.cur.mfa_secret = ""]

\* The endpoint body that runs once get_current_user has returned the user.
Enter(r) ==
    CASE r.op = "mfa_enable" -> EnableEntry(r)
      [] r.op = "mfa_confirm" -> ConfirmEntry(r)
      [] r.op = "mfa_disable" -> DisableEntry(r)
      [] r.op = "list_sessions" -> [r EXCEPT !.pc = "l_select"]
      [] r.op = "delete_account" -> [r EXCEPT !.pc = "sd_fetch"]
      [] OTHER -> [r EXCEPT !.pc = "x_get"]

\* get_current_user from the user SELECT on; is_active is never written by the
\* sources and keeps its default, true.
GcuFetch(p) ==
    /\ req[p].pc = "u_fetch"
    /\ LET r == req[p]
           a == r.actor
       IN req' = [req EXCEPT ![p] =
            IF users[a].deleted
            THEN Respond(r, "no_user", 401, "User not found", 0)
            ELSE LET l == [r EXCEPT !.uid = a, !.orig = users[a], !.cur = users[a]]
                 IN IF users[a].is_locked
                    THEN IF LockRunning(users[a], now)
                         THEN Respond(l, "account_locked", 403,
                                      "Account is temporarily locked. Please try again later.", 0)
                         ELSE [l EXCEPT !.pc = "u_unlock", !.cur = Unlocked(users[a])]
                    ELSE Enter(l)]
    /\ UNCHANGED billVars
    /\ UNCHANGED tradeVars
    /\ UNCHANGED limitVars
    /\ UNCHANGED <<now, users, sessions, backup_codes, audit, outbox, reset_seq>>

\* get_current_user: the commit of the lazy unlock, then the endpoint body.
GcuUnlock(p) ==
    /\ req[p].pc = "u_unlock"
    /\ LET r == req[p]
       IN /\ users' = [users EXCEPT ![r.uid] = Flush(@, r.orig, r.cur)]
          /\ req' = [req EXCEPT ![p] = Enter([r EXCEPT !.orig = r.cur, !.unlocked = TRUE])]
    /\ UNCHANGED billVars
    /\ UNCHANGED tradeVars
    /\ UNCHANGED limitVars
    /\ UNCHANGED <<now, sessions, backup_codes, audit, outbox, reset_seq>>

\* enable_mfa's commit: the pending secret and the new backup codes are stored.
ECommit(p) ==
    /\ req[p].pc = "e_commit"
    /\ LET r == req[p]
       IN /\ users' = [users EXCEPT ![r.uid] = Flush(@, r.orig, r.cur)]
          /\ backup_codes' = [backup_codes EXCEPT ![r.uid] = @ \cup r.new_codes]
          /\ req' = [req EXCEPT ![p] = Respond([r EXCEPT !.orig = r.cur], "mfa_setup", 200, "ok", 0)]
    /\ UNCHANGED billVars
    /\ UNCHANGED tradeVars
    /\ UNCHANGED limitVars
    /\ UNCHANGED <<now, sessions, audit, outbox, reset_seq>>

\* confirm_mfa's commit; the audit row is added after it, the email is sent.
KCommit(p) ==
    /\ req[p].pc = "k_commit"
    /\ LET r == req[p]
       IN /\ users' = [users EXCEPT ![r.uid] = Flush(@, r.orig, r.cur)]
          /\ outbox' = outbox \cup {[to |-> r.cur.email, kind |-> "mfa_enabled", token |-> 0]}
          /\ req' = [req EXCEPT ![p] =
                Respond([r EXCEPT !.orig = r.cur], "mfa_on", 200, "MFA enabled successfully", 0)]
    /\ UNCHANGED billVars
    /\ UNCHANGED tradeVars
    /\ UNCHANGED limitVars
    /\ UNCHANGED <<now, sessions, backup_codes, audit, reset_seq>>

\* disable_mfa's DELETE runs inside the open transaction: the rows it matched
\* are gone for this request only, until the commit.
DDelete(p) ==
    /\ req[p].pc = "d_delete"
    /\ req' = [req EXCEPT ![p].pc = "d_commit", ![p].doomed = backup_codes[req[p].uid]]
    /\ UNCHANGED billVars
    /\ UNCHANGED tradeVars
    /\ UNCHANGED limitVars
    /\ UNCHANGED <<now, users, sessions, backup_codes, audit, outbox, reset_seq>>

\* Mutant: the commit stores the user's columns and loses the DELETE.
KeepCodes(codes, doomed) == codes

\* The rows left once the DELETE is committed.
DeleteCodes(codes, doomed) == codes \ doomed

\* disable_mfa's commit: the cleared columns and the DELETE in one transaction;
\* the audit row is added after it.
DCommit(p) ==
    /\ req[p].pc = "d_commit"
    /\ LET r == req[p]
       IN /\ users' = [users EXCEPT ![r.uid] = Flush(@, r.orig, r.cur)]
          /\ backup_codes' = [backup_codes EXCEPT ![r.uid] = DeleteCodes(@, r.doomed)]
          /\ req' = [req EXCEPT ![p] =
                Respond([r EXCEPT !.orig = r.cur], "mfa_off", 200, "MFA disabled successfully", 0)]
    /\ UNCHANGED billVars
    /\ UNCHANGED tradeVars
    /\ UNCHANGED limitVars
    /\ UNCHANGED <<now, sessions, audit, outbox, reset_seq>>

MfaSetupSteps(p) == GcuFetch(p) \/ ECommit(p) \/ KCommit(p) \/ DDelete(p) \/ DCommit(p)

\* -------------------------------------------------- session self-service
StartList(p) ==
    /\ CanStart(p)
    /\ \E a \in UserIds :
          req' = [req EXCEPT ![p] = [Idle EXCEPT !.pc = "u_fetch", !.op = "list_sessions",
                                       !.actor = a]]
    /\ UNCHANGED billVars
    /\ UNCHANGED tradeVars
    /\ UNCHANGED limitVars
    /\ UNCHANGED <<now, users, sessions, backup_codes, audit, outbox, reset_seq>>

\* list_sessions: the SELECT of the caller's sessions that are not revoked.
LSelect(p) ==
    /\ req[p].pc = "l_select"
    /\ req' = [req EXCEPT ![p] =
          [Respond(req[p], "listed", 200, "ok", 0) EXCEPT !.listed = LiveSessionsOf(req[p].uid)]]
    /\ UNCHANGED billVars
    /\ UNCHANGED tradeVars
    /\ UNCHANGED limitVars
    /\ UNCHANGED <<now, users, sessions, backup_codes, audit, outbox, reset_seq>>

\* The session_id path parameter is any string: the id of a Session row, a
\* well-formed UUID of no row (0), or a string that is not a UUID (NULL).
StartRevokeSession(p) ==
    /\ CanStart(p)
    /\ \E a \in UserIds, i \in {NULL} \cup 0..Len(sessions) :
          req' = [req EXCEPT ![p] = [Idle EXCEPT !.pc = "u_fetch", !.op = "revoke_session",
                                       !.actor = a, !.sid = i]]
    /\ UNCHANGED billVars
    /\ UNCHANGED tradeVars
    /\ UNCHANGED limitVars
    /\ UNCHANGED <<now, users, sessions, backup_codes, audit, outbox, reset_seq>>

\* revoke_session from UUID(session_id) and db.get to its commit. UUID() raises
\* ValueError on a string that is not a UUID; the endpoint does not catch it
\* and the request ends as an internal server error.
RevokeCheck(r, ss) ==
    IF r.sid = NULL
    THEN Respond(r, "bad_uuid", 500, "Internal Server Error", 0)
    ELSE IF r.sid \notin 1..Len(ss) \/ ss[r.sid].user_id # r.uid
    THEN Respond(r, "not_found", 404, "Session not found", 0)
    ELSE IF ss[r.sid].is_revoked
    THEN Respond(r, "already_revoked", 400, "Session already revoked", 0)
    ELSE [r EXCEPT !.pc = "x_commit"]

XGet(p) ==
    /\ req[p].pc = "x_get"
    /\ req' = [req EXCEPT ![p] = RevokeCheck(req[p], sessions)]
    /\ UNCHANGED billVars
    /\ UNCHANGED tradeVars
    /\ UNCHANGED limitVars
    /\ UNCHANGED <<now, users, sessions, backup_codes, audit, outbox, reset_seq>>

\* revoke_session's commit of is_revoked.
XCommit(p) ==
    /\ req[p].pc = "x_commit"
    /\ sessions' = [sessions EXCEPT ![req[p].sid].is_revoked = TRUE]
    /\ req' = [req EXCEPT ![p] = Respond(req[p], "revoked", 200, "Session revoked successfully", 0)]
    /\ UNCHANGED billVars
    /\ UNCHANGED tradeVars
    /\ UNCHANGED limitVars
    /\ UNCHANGED <<now, users, backup_codes, audit, outbox, reset_seq>>

\* completeReset -----------------------------------------------------------
\* The clock of the reset specifications: half-hour steps up to MaxResetClock.
TickReset ==
    /\ InFlight = {}
    /\ now + LOCKOUT_DURATION_MINUTES <= MaxResetClock
    /\ now' = now + LOCKOUT_DURATION_MINUTES
    /\ UNCHANGED billVars
    /\ UNCHANGED tradeVars
    /\ UNCHANGED limitVars
    /\ UNCHANGED <<users, sessions, backup_codes, audit, outbox, reset_seq, req>>

StartReset(p) ==
    /\ CanStart(p)
    /\ \E t \in 0..reset_seq, npw \in NewPasswords :
          req' = [req EXCEPT ![p] = [Idle EXCEPT !.pc = "p_fetch", !.op = "reset",
                                       !.token = t, !.new_password = npw]]
    /\ UNCHANGED billVars
    /\ UNCHANGED tradeVars
    /\ UNCHANGED limitVars
    /\ UNCHANGED <<now, users, sessions, backup_codes, audit, outbox, reset_seq>>

\* select(User).where(password_reset_token == h, deleted_at is None); 0 is None.
LookupResetUser(h) ==
    IF \E u \in UserIds : users[u].password_reset_token = h /\ ~users[u].deleted
    THEN CHOOSE u \in UserIds : users[u].password_reset_token = h /\ ~users[u].deleted
    ELSE 0

\* reset_password, "Check if token is expired (1 hour)".
ResetExpired(u, t) ==
    u.password_reset_sent_at # NULL /\ t > u.password_reset_sent_at + RESET_VALIDITY_MINUTES

\* Mutant: the reset leaves the token in place.
ResetKeepsToken(u, npw) == [u EXCEPT !.password_hash = hash_password(npw)]

\* reset_password, "Update password": the new hash, the token and its time cleared.
ResetApplied(u, npw) ==
    [u EXCEPT !.password_hash = hash_password(npw),
              !.password_reset_token = NoHash, !.password_reset_sent_at = NULL]

\* The 400 of the reset-password endpoint, with the service's message.
ResetRejected(r, path, detail) == Respond(r, path, 400, detail, 0)

\* reset_password from the user SELECT to the SELECT of _revoke_all_user_sessions.
PFetch(p) ==
    /\ req[p].pc = "p_fetch"
    /\ LET r == req[p]
           u == LookupResetUser(hash_token(r.token))
       IN req' = [req EXCEPT ![p] =
            IF u = 0
            THEN ResetRejected(r, "invalid_token", "Invalid reset token")
            ELSE IF ResetExpired(users[u], now)
            THEN ResetRejected([r EXCEPT !.uid = u], "expired_token", "Reset token has expired")
            ELSE [r EXCEPT !.pc = "p_revoke_read", !.uid = u, !.orig = users[u],
                           !.cur = ResetApplied(users[u], r.new_password)]]
    /\ UNCHANGED billVars
    /\ UNCHANGED tradeVars
    /\ UNCHANGED limitVars
    /\ UNCHANGED <<now, users, sessions, backup_codes, audit, outbox, reset_seq>>

\* _revoke_all_user_sessions called by reset_password: its SELECT.
PRevokeRead(p) ==
    /\ req[p].pc = "p_revoke_read"
    /\ req' = [req EXCEPT ![p].pc = "p_commit", ![p].seen = LiveSessionsOf(req[p].uid)]
    /\ UNCHANGED billVars
    /\ UNCHANGED tradeVars
    /\ UNCHANGED limitVars
    /\ UNCHANGED <<now, users, sessions, backup_codes, audit, outbox, reset_seq>>

\* The commit inside _revoke_all_user_sessions stores the user's new columns and
\* the revocations in one transaction; reset_password's own commit finds
\* nothing left to store, and the endpoint answers.
PCommit(p) ==
    /\ req[p].pc = "p_commit"
    /\ LET r == req[p]
       IN /\ users' = [users EXCEPT ![r.uid] = Flush(@, r.orig, r.cur)]
          /\ sessions' = RevokeAll(sessions, r.seen)
          /\ req' = [req EXCEPT ![p] =
                Respond([r EXCEPT !.orig = r.cur], "reset_done", 200, "Password reset successfully", 0)]
    /\ UNCHANGED billVars
    /\ UNCHANGED tradeVars
    /\ UNCHANGED limitVars
    /\ UNCHANGED <<now, backup_codes, audit, outbox, reset_seq>>

ResetSteps(p) == PFetch(p) \/ PRevokeRead(p) \/ PCommit(p)

\* ---------------------------------------------------------- account deletion
\* api/v1/privacy.py DELETE /account, behind get_current_user.
StartDelete(p) ==
    /\ CanStart(p)
    /\ \E a \in UserIds :
          req' = [req EXCEPT ![p] = [Idle EXCEPT !.pc = "u_fetch", !.op = "delete_account",
                                       !.actor = a]]
    /\ UNCHANGED billVars
    /\ UNCHANGED tradeVars
    /\ UNCHANGED limitVars
    /\ UNCHANGED <<now, users, sessions, backup_codes, audit, outbox, reset_seq>>

\* f"deleted_{user_id}@deleted.local"
AnonymisedEmail(uid) ==
    IF uid = 1 THEN "deleted_1@deleted.local"
    ELSE IF uid = 2 THEN "deleted_2@deleted.local"
    ELSE "deleted_3@deleted.local"

\* Mutant: the personal data is cleared but deleted_at is left unset.
ScrubbedOnly(row, uid) ==
    [row EXCEPT !.email = AnonymisedEmail(uid),
                !.password_reset_token = NoHash, !.mfa_secret = ""]

\* soft_delete_account: the columns it assigns. mfa_enabled is not among them.
SoftDeleted(row, uid) ==
    [row EXCEPT !.deleted = TRUE, !.email = AnonymisedEmail(uid),
                !.password_reset_token = NoHash, !.mfa_secret = ""]

\* soft_delete_account: its SELECT of the user that is not deleted yet, and the
\* assignments to the row.
SdFetch(p) ==
    /\ req[p].pc = "sd_fetch"
    /\ LET r == req[p]
       IN req' = [req EXCEPT ![p] =
            IF users[r.uid].deleted
            THEN Respond(r, "no_user", 404, "User not found or already deleted", 0)
            ELSE [r EXCEPT !.pc = "sd_revoke", !.orig = users[r.uid],
                           !.cur = SoftDeleted(users[r.uid], r.uid)]]
    /\ UNCHANGED billVars
    /\ UNCHANGED tradeVars
    /\ UNCHANGED limitVars
    /\ UNCHANGED <<now, users, sessions, backup_codes, audit, outbox, reset_seq>>

\* The UPDATE of the user's sessions that are not revoked, inside the open
\* transaction: it reaches the rows that exist when it runs.
SdRevoke(p) ==
    /\ req[p].pc = "sd_revoke"
    /\ req' = [req EXCEPT ![p].pc = "sd_delete", ![p].seen = LiveSessionsOf(req[p].uid)]
    /\ UNCHANGED billVars
    /\ UNCHANGED tradeVars
    /\ UNCHANGED limitVars
    /\ UNCHANGED <<now, users, sessions, backup_codes, audit, outbox, reset_seq>>

\* The DELETE of the user's backup codes, inside the open transaction.
SdDelete(p) ==
    /\ req[p].pc = "sd_delete"
    /\ req' = [req EXCEPT ![p].pc = "sd_commit", ![p].doomed = backup_codes[req[p].uid]]
    /\ UNCHANGED billVars
    /\ UNCHANGED tradeVars
    /\ UNCHANGED limitVars
    /\ UNCHANGED <<now, users, sessions, backup_codes, audit, outbox, reset_seq>>

\* The one commit of soft_delete_account: the row, the revocations, the DELETE
\* and the "account_deleted" audit row. The UPDATE that anonymises the address
\* columns of older audit rows touches no column kept here.
SdCommit(p) ==
    /\ req[p].pc = "sd_commit"
    /\ LET r == req[p]
       IN /\ users' = [users EXCEPT ![r.uid] = Flush(@, r.orig, r.cur)]
          /\ sessions' = RevokeAll(sessions, r.seen)
          /\ backup_codes' = [backup_codes EXCEPT ![r.uid] = DeleteCodes(@, r.doomed)]
          /\ audit' = audit \cup {AuditRec(r.uid, "account_deleted", TRUE)}
          /\ req' = [req EXCEPT ![p] =
                Respond([r EXCEPT !.orig = r.cur], "deleted", 200,
                        "Account successfully deleted. All sessions have been revoked.", 0)]
    /\ UNCHANGED billVars
    /\ UNCHANGED tradeVars
    /\ UNCHANGED limitVars
    /\ UNCHANGED <<now, outbox, reset_seq>>

DeleteSteps(p) == SdFetch(p) \/ SdRevoke(p) \/ SdDelete(p) \/ SdCommit(p)

\* ------------------------------------------------------------------- specs
\* The response has been delivered; the slot is free again.
Return(p) ==
    /\ req[p].pc = "done"
    /\ req' = [req EXCEPT ![p] = Idle]
    /\ UNCHANGED billVars
    /\ UNCHANGED tradeVars
    /\ UNCHANGED limitVars
    /\ UNCHANGED <<now, users, sessions, backup_codes, audit, outbox, reset_seq>>

\* The request is cancelled, or its worker dies, at an await: get_db closes the
\* ORM session, which rolls back whatever it had not committed.
Cancel(p) ==
    /\ req[p].pc \notin {"idle", "done"}
    /\ req' = [req EXCEPT ![p] = Idle]
    /\ UNCHANGED billVars
    /\ UNCHANGED tradeVars
    /\ UNCHANGED limitVars
    /\ UNCHANGED <<now, users, sessions, backup_codes, audit, outbox, reset_seq>>

LoginSteps(p) ==
    \/ AFetch(p) \/ AUnlock(p) \/ ACommitFail(p) \/ ACommitOk(p) \/ ACommitLogin(p)
    \/ CsCommit(p)

\* The steps of a login whose password matches on an account that is not locked.
LoginOkSteps(p) == AFetch(p) \/ ACommitOk(p) \/ ACommitLogin(p) \/ CsCommit(p)

MfaSteps(p) == MCommitTotp(p) \/ MBackup(p) \/ MCommitBackup(p)

RefreshSteps(p) ==
    RFetch(p) \/ RRevokeRead(p) \/ RRevokeCommit(p) \/ RGetUser(p) \/ RCommit(p)

\* Login requests, served one at a time.
NextLogin ==
    \/ Tick
    \/ \E p \in Serial :
          \/ StartLogin(p, Emails, Passwords, {NoCode, "000000"})
          \/ LoginSteps(p) \/ MBackup(p)
          \/ Return(p)

SpecLogin == Init /\ [][NextLogin]_vars

\* Login, refresh and logout requests, served one at a time.
NextSession ==
    \/ Tick
    \/ \E p \in Serial :
          \/ StartLogin(p, {"a@x", "b@x"}, {"good"}, {"111111"})
          \/ LoginOkSteps(p) \/ MCommitTotp(p)
          \/ StartRefresh(p)
          \/ RefreshSteps(p)
          \/ StartLogout(p)
          \/ OFetch(p) \/ OCommit(p)
          \/ Return(p)

SpecSession == Init /\ [][NextSession]_vars

\* mfa/verify requests, served one at a time.
NextMfa ==
    \/ Tick
    \/ \E p \in Serial :
          \/ StartMfaVerify(p)
          \/ VFetch(p) \/ MfaSteps(p) \/ CsCommit(p)
          \/ Return(p)

SpecMfa == Init /\ [][NextMfa]_vars

\* forgot-password requests, served one at a time.
NextReset ==
    \/ Tick
    \/ \E p \in Serial :
          \/ StartForgot(p)
          \/ FFetch(p) \/ FCommit(p)
          \/ Return(p)

SpecReset == Init /\ [][NextReset]_vars

\* Logins, and the listing and revocation of one's sessions, served one at a time.
NextOwnSessions ==
    \E p \in Serial :
        \/ StartLogin(p, {"a@x", "b@x"}, {"good"}, {"111111"})
        \/ LoginOkSteps(p) \/ MCommitTotp(p)
        \/ StartList(p)
        \/ StartRevokeSession(p)
        \/ GcuFetch(p) \/ LSelect(p) \/ XGet(p) \/ XCommit(p)
        \/ Return(p)

SpecOwnSessions == Init /\ [][NextOwnSessions]_vars

\* MFA enable, confirm and disable, and logins, served one at a time.
NextMfaSetup ==
    \E p \in Serial :
        \/ (StartEnable(p) /\ \A u \in UserIds : Cardinality(backup_codes[u]) < MaxBatches * BACKUP_CODE_COUNT)
        \/ StartConfirm(p)
        \/ StartDisable(p)
        \/ MfaSetupSteps(p)
        \/ StartLogin(p, {"a@x", "b@x"}, {"good"}, {NoCode})
        \/ LoginOkSteps(p)
        \/ Return(p)

SpecMfaSetup == Init /\ [][NextMfaSetup]_vars

\* Logins, refreshes, forgot-password and reset-password, served one at a time
\* at one instant of the clock.
NextResetSessions ==
    \E p \in Serial :
        \/ StartLoginMatching(p, {"a@x", "b@x"}, {"111111"})
        \/ LoginOkSteps(p) \/ MCommitTotp(p)
        \/ StartRefresh(p)
        \/ RefreshSteps(p)
        \/ StartForgot(p)
        \/ FFetch(p) \/ FCommit(p)
        \/ StartReset(p)
        \/ ResetSteps(p)
        \/ Return(p)

SpecResetSessions == Init /\ [][NextResetSessions]_vars

\* Logins, forgot-password and reset-password, served one at a time while the
\* clock runs past the validity of a reset token.
NextResetOnce ==
    \/ TickReset
    \/ \E p \in Serial :
          \/ StartLoginMatching(p, {"a@x"}, {NoCode})
          \/ LoginOkSteps(p)
          \/ StartForgot(p)
          \/ FFetch(p) \/ FCommit(p)
          \/ StartReset(p)
          \/ ResetSteps(p)
          \/ Return(p)

SpecResetOnce == Init /\ [][NextResetOnce]_vars

\* Two login requests for the same account, interleaved at their awaits.
NextConcLogin ==
    \/ Tick
    \/ \E p \in Procs :
          \/ StartLogin(p, {"a@x"}, Passwords, {NoCode})
          \/ LoginSteps(p)
          \/ Return(p)

SpecConcLogin == Init /\ [][NextConcLogin]_vars

\* Logins and refreshes, interleaved at their awaits.
NextConcRefresh ==
    \/ Tick
    \/ \E p \in Procs :
          \/ StartLogin(p, {"a@x"}, {"good"}, {NoCode})
          \/ LoginOkSteps(p)
          \/ StartRefresh(p)
          \/ RefreshSteps(p)
          \/ Return(p)

SpecConcRefresh == Init /\ [][NextConcRefresh]_vars

\* Logins, refreshes, session listings, forgot-password requests and account
\* deletions, served one at a time at one instant of the clock.
NextDelete ==
    \E p \in Serial :
        \/ StartLogin(p, {"a@x", "b@x"}, {"good"}, {"111111"})
        \/ LoginOkSteps(p) \/ MCommitTotp(p)
        \/ StartRefresh(p)
        \/ RefreshSteps(p)
        \/ StartForgot(p)
        \/ FFetch(p) \/ FCommit(p)
        \/ StartList(p)
        \/ StartDelete(p)
        \/ GcuFetch(p) \/ LSelect(p)
        \/ DeleteSteps(p)
        \/ Return(p)

SpecDelete == Init /\ [][NextDelete]_vars

\* Logins and refreshes, interleaved at their awaits, any of which may be
\* cancelled at any await.
NextRotation ==
    \/ Tick
    \/ \E p \in Procs :
          \/ StartLogin(p, {"a@x"}, {"good"}, {NoCode})
          \/ LoginOkSteps(p)
          \/ StartRefresh(p)
          \/ RefreshSteps(p)
          \/ Cancel(p)
          \/ Return(p)

SpecRotation == Init /\ [][NextRotation]_vars

\* Logins and bearer-token requests of the same accounts, served one at a time:
\* a lock that ran out is lifted by whichever of the two comes first.
NextLazyUnlock ==
    \/ Tick
    \/ \E p \in Serial :
          \/ StartLogin(p, {"a@x"}, Passwords, {NoCode})
          \/ LoginSteps(p)
          \/ StartList(p)
          \/ GcuFetch(p) \/ GcuUnlock(p) \/ LSelect(p)
          \/ Return(p)

SpecLazyUnlock == Init /\ [][NextLazyUnlock]_vars

\* Two mfa/verify requests for the account "b@x", interleaved at their awaits;
\* each presents a backup code or the current TOTP code.
NextConcVerify ==
    \E p \in Procs :
        \/ /\ StartMfaVerify(p)
           /\ req'[p].email = "b@x" /\ req'[p].code \in {"BK1", "BK2", "111111"}
        \/ VFetch(p) \/ MfaSteps(p) \/ CsCommit(p)
        \/ Return(p)

SpecConcVerify == Init /\ [][NextConcVerify]_vars

\* Every way a session gets revoked, served one request at a time: logout,
\* revocation of one session, password reset, reuse of a redeemed token and
\* deletion of the account; logins and refreshes in between. Every request is
\* one of the account "a@x" or carries one of its tokens.
NextRevocation ==
    \E p \in Serial :
        \/ StartLoginMatching(p, {"a@x"}, {NoCode})
        \/ LoginOkSteps(p)
        \/ StartRefresh(p)
        \/ RefreshSteps(p)
        \/ StartLogout(p)
        \/ OFetch(p) \/ OCommit(p)
        \/ StartRevokeSession(p) /\ req'[p].actor = 1
        \/ GcuFetch(p) \/ XGet(p) \/ XCommit(p)
        \/ StartForgot(p) /\ req'[p].email = "a@x"
        \/ FFetch(p) \/ FCommit(p)
        \/ StartReset(p)
        \/ ResetSteps(p)
        \/ StartDelete(p) /\ req'[p].actor = 1
        \/ DeleteSteps(p)
        \/ Return(p)

SpecRevocation == Init /\ [][NextRevocation]_vars

\* The request slot p has just taken is one of the MFA account "b@x" with the
\* right password, the secret "S2" and the code current for it.
OwnerOfB(r) ==
    /\ r.actor \in {0, 2} /\ r.password \in {"", "good"}
    /\ r.draw \in {"", "S2"} /\ r.code \in {NoCode, "111111"}

\* MFA enable, confirm and disable and logins of one account, two requests at a
\* time, interleaved at their awaits.
NextConcMfa ==
    \E p \in Procs :
        \/ /\ StartEnable(p) /\ OwnerOfB(req'[p])
           /\ Cardinality(backup_codes[2]) + BACKUP_CODE_COUNT * Cardinality(InFlight)
                 < MaxBatches * BACKUP_CODE_COUNT
        \/ StartConfirm(p) /\ OwnerOfB(req'[p])
        \/ StartDisable(p) /\ OwnerOfB(req'[p])
        \/ MfaSetupSteps(p)
        \/ StartLogin(p, {"b@x"}, {"good"}, {"111111"})
        \/ LoginOkSteps(p) \/ MCommitTotp(p)
        \/ Return(p)

SpecConcMfa == Init /\ [][NextConcMfa]_vars

\* ============================================================ entitlements
\* core/entitlements.py and services/billing.py. The caller of an entitlement
\* check or of /billing/cancel is a user get_current_user has let through.

BInFlight == {q \in Procs : breq[q].pc \notin {"idle", "done"}}

\* The response goes out; of the request only what it was about is kept.
BRespond(r, status, detail) ==
    [BIdle EXCEPT !.pc = "done", !.op = r.op, !.uid = r.uid, !.event = r.event,
                  !.status = status, !.detail = detail]

\* A key after ElapseStep more seconds: gone once its time to live is over.
Aged(e) ==
    IF e = NoEntry \/ e.ttl <= ElapseStep THEN NoEntry ELSE [e EXCEPT !.ttl = @ - ElapseStep]

Later(s) == IF s + ElapseStep > MaxSince THEN MaxSince ELSE s + ElapseStep

\* The clock of Redis and of the history variable, in seconds. No request is
\* between two of its awaits when it moves.
Elapse ==
    /\ BInFlight = {}
    /\ \E u \in Payers : cache[u] # NoEntry \/ since[u] < MaxSince
    /\ cache' = [cache EXCEPT ![1] = Aged(@), ![2] = Aged(@)]
    /\ since' = [since EXCEPT ![1] = Later(@), ![2] = Later(@)]
    /\ UNCHANGED <<plans, subs, processed, breq>>
    /\ UNCHANGED authVars
    /\ UNCHANGED tradeVars
    /\ UNCHANGED limitVars

\* ------------------------------------------------------- get_entitlements
StartResolve(p, who) ==
    /\ breq[p].pc = "idle"
    /\ \E u \in who :
          breq' = [breq EXCEPT ![p] = [BIdle EXCEPT !.pc = "g_get", !.op = "resolve",
                                                   !.uid = u]]
    /\ UNCHANGED <<plans, subs, cache, processed, since>>
    /\ UNCHANGED authVars
    /\ UNCHANGED tradeVars
    /\ UNCHANGED limitVars

\* get_entitlements returns Entitlements(plan_name, features): to the caller
\* of an entitlement check as its answer, to place_order as its argument.
Resolved(r, detail, plan_name, features) ==
    IF r.op = "order"
    THEN [r EXCEPT !.pc = "o_check", !.plan_name = plan_name, !.features = features]
    ELSE [BRespond(r, 200, detail) EXCEPT !.plan_name = plan_name, !.features = features]

\* redis.get(cache_key): a hit returns what the key holds.
GGet(p) ==
    /\ breq[p].pc = "g_get"
    /\ LET r == breq[p]
           cached == cache[r.uid]
       IN breq' = [breq EXCEPT ![p] =
              IF cached # NoEntry
              THEN Resolved(r, "hit", cached.plan_name, cached.features)
              ELSE [r EXCEPT !.pc = "g_load"]]
    /\ UNCHANGED <<plans, subs, cache, processed, since>>
    /\ UNCHANGED authVars
    /\ UNCHANGED tradeVars
    /\ UNCHANGED limitVars

\* What the billing store says a user is entitled to: the plan of the active
\* subscription, else the stored "free" plan, else the hardcoded defaults.
ActiveSubscription(u) == subs[u].exists /\ subs[u].status = "active"

EntitlementWhenTrialing(row) ==
    IF row.exists /\ row.status \in {"active", "trialing"}
    THEN [plan_name |-> row.plan_id, features |-> PlanFeatures(row.plan_id)]
    ELSE IF "free" \in plans
         THEN [plan_name |-> "free", features |-> PlanFeatures("free")]
         ELSE [plan_name |-> "free", features |-> HardcodedFree]

EntitlementOf(row) ==
    IF row.exists /\ row.status = "active"
    THEN [plan_name |-> row.plan_id, features |-> PlanFeatures(row.plan_id)]
    ELSE IF "free" \in plans
         THEN [plan_name |-> "free", features |-> PlanFeatures("free")]
         ELSE [plan_name |-> "free", features |-> HardcodedFree]

LoadEntitlements(u) == EntitlementOf(subs[u])

\* The queries of a cache miss. subscription.plan is a lazy relationship: it
\* yields the plan when the ORM session already holds it (plan_loaded) and
\* raises otherwise, which the handler turns into a 500.
GLoad(p) ==
    /\ breq[p].pc = "g_load"
    /\ \E plan_loaded \in BOOLEAN :
          LET r == breq[p]
              e == LoadEntitlements(r.uid)
          IN breq' = [breq EXCEPT ![p] =
                 IF ActiveSubscription(r.uid) /\ ~plan_loaded
                 THEN BRespond(r, 500, "Failed to load user entitlements")
                 ELSE [r EXCEPT !.pc = "g_store", !.plan_name = e.plan_name,
                                !.features = e.features]]
    /\ UNCHANGED <<plans, subs, cache, processed, since>>
    /\ UNCHANGED authVars
    /\ UNCHANGED tradeVars
    /\ UNCHANGED limitVars

\* redis.setex(cache_key, 300, ...), then the answer.
GStore(p) ==
    /\ breq[p].pc = "g_store"
    /\ LET r == breq[p]
       IN /\ cache' = [cache EXCEPT ![r.uid] =
                          Entry(r.plan_name, r.features, ENTITLEMENTS_TTL_SECONDS)]
          /\ breq' = [breq EXCEPT ![p] = Resolved(r, "miss", r.plan_name, r.features)]
    /\ UNCHANGED <<plans, subs, processed, since>>
    /\ UNCHANGED authVars
    /\ UNCHANGED tradeVars
    /\ UNCHANGED limitVars

ResolveSteps(p) == GGet(p) \/ GLoad(p) \/ GStore(p)

\* Redis is unreachable: redis.get raises, and the handler's except clause
\* answers 500 before the billing store is read.
GGetFails(p) ==
    /\ breq[p].pc = "g_get"
    /\ breq' = [breq EXCEPT ![p] = BRespond(breq[p], 500, "Failed to load user entitlements")]
    /\ UNCHANGED <<plans, subs, cache, processed, since>>
    /\ UNCHANGED authVars
    /\ UNCHANGED tradeVars
    /\ UNCHANGED limitVars

\* Redis is unreachable: redis.setex raises after the entitlements were
\* computed, and the handler's except clause answers 500 without them.
GStoreFails(p) ==
    /\ breq[p].pc = "g_store"
    /\ breq' = [breq EXCEPT ![p] = BRespond(breq[p], 500, "Failed to load user entitlements")]
    /\ UNCHANGED <<plans, subs, cache, processed, since>>
    /\ UNCHANGED authVars
    /\ UNCHANGED tradeVars
    /\ UNCHANGED limitVars

\* redis.delete(cache_key)
InvalidateNothing(c, u) == c

invalidate_entitlements_cache(c, u) == [c EXCEPT ![u] = NoEntry]

\* ------------------------------------------------------------ place_order
\* api/v1/trading.py. PlaceOrderRequest admits the modes "paper" and "live" and
\* the order types "market", "limit", "stop" and "stop_limit".
Modes == {"paper", "live"}
OrderTypes == {"market", "limit", "stop"}

\* models/trading.py Order, and the order as the broker holds it.
OrderRec(uid, mode) == [user_id |-> uid, mode |-> mode]

\* POST /trading/orders: get_entitlements runs first, as a dependency.
StartOrder(p, who) ==
    /\ breq[p].pc = "idle"
    /\ Len(placed) < MaxOrders
    /\ \E u \in who, m \in Modes :
          breq' = [breq EXCEPT ![p] = [BIdle EXCEPT !.pc = "g_get", !.op = "order",
                                                   !.uid = u, !.mode = m]]
    /\ UNCHANGED <<plans, subs, cache, processed, since>>
    /\ UNCHANGED authVars
    /\ UNCHANGED tradeVars
    /\ UNCHANGED limitVars

\* json.loads of a stored feature value: the booleans, else the text itself.
json_loads(raw) == IF raw = "true" THEN TRUE ELSE IF raw = "false" THEN FALSE ELSE raw

\* Entitlements.get_feature_value: NULL when the feature map lacks the key.
get_feature_value(features, key) ==
    IF key \in DOMAIN features THEN json_loads(features[key]) ELSE NULL

\* Entitlements.require_feature(key, True) lets the request through: the value
\* is the boolean true, or a text that reads "true" (lower-cased: the stored
\* texts are lower case already).
FeatureGranted(features, key) ==
    LET v == get_feature_value(features, key)
    IN IF v \in BOOLEAN THEN v
       ELSE IF v = NULL THEN FALSE
       ELSE v = "true"

\* The checks of place_order before the broker is called; 0 when all pass.
GateIgnoringApproval(r, order_type, priced, live_enabled) ==
    IF r.mode = "live" /\ ~FeatureGranted(r.features, "live_trading_enabled") THEN 403
    ELSE IF r.mode = "live" /\ ~live_enabled THEN 500
    ELSE IF order_type = "limit" /\ ~priced THEN 400
    ELSE IF order_type \notin {"market", "limit"} THEN 400
    ELSE 0

OrderGate(r, order_type, priced, live_enabled) ==
    IF r.mode = "live" /\ ~FeatureGranted(r.features, "live_trading_enabled") THEN 403
    ELSE IF r.mode = "live" /\ r.uid \notin approved THEN 403
    ELSE IF r.mode = "live" /\ ~live_enabled THEN 500
    ELSE IF order_type = "limit" /\ ~priced THEN 400
    ELSE IF order_type \notin {"market", "limit"} THEN 400
    ELSE 0

OrderDetail(r, code) ==
    IF code = 403 /\ ~FeatureGranted(r.features, "live_trading_enabled")
    THEN "Feature not available on plan"
    ELSE IF code = 403 THEN "Live trading requires admin approval"
    ELSE IF code = 500 THEN "Failed to place order"
    ELSE "Bad order"

\* The entitlement and approval checks, get_broker (which refuses live mode
\* unless ENABLE_LIVE_TRADING is set) and the broker's submit_order, which is
\* a blocking call: nothing else runs between the checks and the order.
OPlace(p) ==
    /\ breq[p].pc = "o_check"
    /\ \E order_type \in OrderTypes, priced \in BOOLEAN, live_enabled \in BOOLEAN,
          accepted \in BOOLEAN :
          LET r == breq[p]
              code == OrderGate(r, order_type, priced, live_enabled)
          IN IF code # 0
             THEN /\ breq' = [breq EXCEPT ![p] = BRespond(r, code, OrderDetail(r, code))]
                  /\ UNCHANGED placed
             ELSE IF ~accepted
             THEN /\ breq' = [breq EXCEPT ![p] = BRespond(r, 500, "Failed to place order")]
                  /\ UNCHANGED placed
             ELSE /\ placed' = Append(placed, OrderRec(r.uid, r.mode))
                  /\ breq' = [breq EXCEPT ![p] = [r EXCEPT !.pc = "o_save"]]
    /\ UNCHANGED <<plans, subs, cache, processed, since, approved, orders>>
    /\ UNCHANGED authVars
    /\ UNCHANGED limitVars

\* db.add(db_order), commit, refresh: the order row is stored and returned.
OSave(p) ==
    /\ breq[p].pc = "o_save"
    /\ orders' = Append(orders, OrderRec(breq[p].uid, breq[p].mode))
    /\ breq' = [breq EXCEPT ![p] = BRespond(breq[p], 201, "created")]
    /\ UNCHANGED <<plans, subs, cache, processed, since, approved, placed>>
    /\ UNCHANGED authVars
    /\ UNCHANGED limitVars

OrderSteps(p) == ResolveSteps(p) \/ OPlace(p) \/ OSave(p)

\* ---------------------------------------------------------- Stripe webhook
EventIds == {"evt_1", "evt_2"}
SelectingTypes ==
    {"checkout.session.completed", "customer.subscription.updated",
     "customer.subscription.deleted", "invoice.payment_failed",
     "invoice.payment_succeeded", "customer.updated"}
AuditedTypes ==
    {"checkout.session.completed", "invoice.payment_failed", "invoice.payment_succeeded"}

\* data.object of an event: the fields its handler reads. "sub_9" is a
\* subscription no row carries, "" an invoice without a subscription, and
\* "unpaid" a status the status map does not list.
Event(type, uid, plan_id, sub_id, status_in, cape) ==
    [type |-> type, uid |-> uid, plan_id |-> plan_id, sub_id |-> sub_id,
     status_in |-> status_in, cape |-> cape]

EventsFor(who) ==
    LET subids == {SubOf(u) : u \in who} \cup {"sub_9"}
    IN {Event("checkout.session.completed", u, "pro", SubOf(u), "", FALSE) : u \in who}
       \cup {Event("customer.subscription.updated", 0, "", s, st, c) :
                s \in subids, st \in {"active", "past_due", "unpaid"}, c \in BOOLEAN}
       \cup {Event("customer.subscription.deleted", 0, "", s, "", FALSE) : s \in subids}
       \cup {Event(t, 0, "", s, "", FALSE) :
                t \in {"invoice.payment_failed", "invoice.payment_succeeded"},
                s \in subids \cup {""}}
       \cup {Event(t, 0, "", "", "", FALSE) : t \in {"customer.updated", "charge.refunded"}}

\* The events about user 1 and about the subscription no row carries.
EventsOfUser1 == EventsFor({1})

\* The events that move a subscription through every status: a checkout for
\* each user, then an update to any status, or a deletion.
StatusEvents ==
    {Event("checkout.session.completed", u, "pro", SubOf(u), "", FALSE) : u \in Payers}
    \cup {Event("customer.subscription.updated", 0, "", s, st, FALSE) :
             s \in SubIds, st \in Statuses}
    \cup {Event("customer.subscription.deleted", 0, "", s, "", FALSE) : s \in SubIds}

\* stripe_webhook: the signature header is checked before the event is handled.
StartWebhook(p, events) ==
    /\ breq[p].pc = "idle"
    /\ \E id \in EventIds, e \in events, sig \in {"valid", "forged", ""} :
          LET r == [BIdle EXCEPT !.op = "webhook", !.event = id, !.type = e.type,
                                 !.uid = e.uid, !.plan_id = e.plan_id, !.sub_id = e.sub_id,
                                 !.status_in = e.status_in, !.cape = e.cape]
          IN breq' = [breq EXCEPT ![p] =
                 IF sig = "" THEN BRespond(r, 400, "Missing Stripe signature header")
                 ELSE IF sig = "forged" THEN BRespond(r, 400, "Invalid signature")
                 ELSE [r EXCEPT !.pc = "w_get"]]
    /\ UNCHANGED <<plans, subs, cache, processed, since>>
    /\ UNCHANGED authVars
    /\ UNCHANGED tradeVars
    /\ UNCHANGED limitVars

\* handle_webhook: redis.get(idempotency_key), then the dispatch on the type.
WGet(p) ==
    /\ breq[p].pc = "w_get"
    /\ LET r == breq[p]
       IN breq' = [breq EXCEPT ![p] =
              IF r.event \in processed THEN BRespond(r, 200, "success")
              ELSE IF r.type \notin SelectingTypes THEN [r EXCEPT !.pc = "w_mark"]
              ELSE IF r.type \in {"invoice.payment_failed", "invoice.payment_succeeded"}
                      /\ r.sub_id = ""
                   THEN [r EXCEPT !.pc = "w_mark"]
              ELSE [r EXCEPT !.pc = "h_select"]]
    /\ UNCHANGED <<plans, subs, cache, processed, since>>
    /\ UNCHANGED authVars
    /\ UNCHANGED tradeVars
    /\ UNCHANGED limitVars

\* SELECT ... WHERE stripe_subscription_id = :id LIMIT 1; 0 when no row has it.
RowBySubscription(sub_id) ==
    IF \E u \in Payers : subs[u].exists /\ subs[u].stripe_subscription_id = sub_id
    THEN CHOOSE u \in Payers : subs[u].exists /\ subs[u].stripe_subscription_id = sub_id
    ELSE 0

\* status_map.get(subscription["status"], SubscriptionStatus.ACTIVE)
status_map(status_in) == IF status_in \in Statuses THEN status_in ELSE "active"

\* The handler has loaded row u and set its attributes; the commit is next.
Loaded(r, u, cur) ==
    [r EXCEPT !.pc = "h_commit", !.row = u, !.orig = subs[u], !.cur = cur, !.insert = FALSE]

\* The SELECTs of the handler of r.type and the attributes it sets.
HandlerSelect(r) ==
    LET u == IF r.type = "checkout.session.completed" THEN r.uid
             ELSE RowBySubscription(r.sub_id)
        row == subs[u]
    IN IF r.type = "checkout.session.completed"
       THEN IF row.exists
            THEN Loaded(r, u, [row EXCEPT !.plan_id = r.plan_id,
                                          !.stripe_subscription_id = r.sub_id,
                                          !.status = "active"])
            ELSE [r EXCEPT !.pc = "h_commit", !.row = u, !.insert = TRUE,
                           !.cur = NewSubscription(r.plan_id, r.sub_id)]
       ELSE IF r.type = "customer.updated" \/ u = 0
       THEN [r EXCEPT !.pc = "w_mark"]
       ELSE IF r.type = "customer.subscription.updated"
       THEN Loaded(r, u, [row EXCEPT !.status = status_map(r.status_in),
                                     !.cancel_at_period_end = r.cape])
       ELSE IF r.type = "customer.subscription.deleted"
       THEN IF "free" \in plans
            THEN Loaded(r, u, [row EXCEPT !.plan_id = "free", !.status = "canceled"])
            ELSE [r EXCEPT !.pc = "w_mark"]
       ELSE IF r.type = "invoice.payment_failed"
       THEN Loaded(r, u, [row EXCEPT !.status = "past_due"])
       ELSE IF row.status # "active"
       THEN Loaded(r, u, [row EXCEPT !.status = "active"])
       ELSE [r EXCEPT !.pc = "h_audit", !.row = u]

HSelect(p) ==
    /\ breq[p].pc = "h_select"
    /\ breq' = [breq EXCEPT ![p] = HandlerSelect(breq[p])]
    /\ UNCHANGED <<plans, subs, cache, processed, since>>
    /\ UNCHANGED authVars
    /\ UNCHANGED tradeVars
    /\ UNCHANGED limitVars

\* db.commit() of the subscription row: an INSERT for a new row, which the
\* unique user_id rejects when another request has inserted one meanwhile, or
\* an UPDATE of the attributes the handler changed.
HCommit(p) ==
    /\ breq[p].pc = "h_commit"
    /\ LET r == breq[p]
           u == r.row
           written == IF r.insert THEN r.cur ELSE Flush(subs[u], r.orig, r.cur)
       IN IF r.insert /\ subs[u].exists
          THEN /\ breq' = [breq EXCEPT ![p] = BRespond(r, 400, "Invalid payload")]
               /\ UNCHANGED <<subs, since>>
          ELSE /\ subs' = [subs EXCEPT ![u] = written]
               /\ since' = [since EXCEPT ![u] =
                               IF EntitlementOf(written) # EntitlementOf(subs[u]) THEN 0 ELSE @]
               /\ breq' = [breq EXCEPT ![p] = [r EXCEPT !.pc = "h_invalidate"]]
    /\ UNCHANGED <<plans, cache, processed>>
    /\ UNCHANGED authVars
    /\ UNCHANGED tradeVars
    /\ UNCHANGED limitVars

\* await invalidate_entitlements_cache(user_id, redis), after the commit.
HInvalidate(p) ==
    /\ breq[p].pc = "h_invalidate"
    /\ LET r == breq[p]
       IN /\ cache' = invalidate_entitlements_cache(cache, r.row)
          /\ breq' = [breq EXCEPT ![p] =
                 IF r.op = "cancel" THEN BRespond(r, 200, "canceled")
                 ELSE IF r.type \in AuditedTypes THEN [r EXCEPT !.pc = "h_audit"]
                 ELSE [r EXCEPT !.pc = "w_mark"]]
    /\ UNCHANGED <<plans, subs, processed, since>>
    /\ UNCHANGED authVars
    /\ UNCHANGED tradeVars
    /\ UNCHANGED limitVars

AuditAction(type) ==
    IF type = "checkout.session.completed" THEN "subscription_activated"
    ELSE IF type = "invoice.payment_failed" THEN "payment_failed"
    ELSE "payment_succeeded"

\* The handler's audit row and its commit.
HAudit(p) ==
    /\ breq[p].pc = "h_audit"
    /\ LET r == breq[p]
       IN /\ audit' = audit \cup {AuditRec(r.row, AuditAction(r.type),
                                            r.type # "invoice.payment_failed")}
          /\ breq' = [breq EXCEPT ![p] = [r EXCEPT !.pc = "w_mark"]]
    /\ UNCHANGED <<now, users, sessions, backup_codes, outbox, reset_seq, req>>
    /\ UNCHANGED <<plans, subs, cache, processed, since>>
    /\ UNCHANGED tradeVars
    /\ UNCHANGED limitVars

\* redis.setex(idempotency_key, 86400, "1"): the event is marked processed.
WMark(p) ==
    /\ breq[p].pc = "w_mark"
    /\ processed' = processed \cup {breq[p].event}
    /\ breq' = [breq EXCEPT ![p] = BRespond(breq[p], 200, "success")]
    /\ UNCHANGED <<plans, subs, cache, since>>
    /\ UNCHANGED authVars
    /\ UNCHANGED tradeVars
    /\ UNCHANGED limitVars

WebhookSteps(p) ==
    WGet(p) \/ HSelect(p) \/ HCommit(p) \/ HInvalidate(p) \/ HAudit(p) \/ WMark(p)

\* ------------------------------------------------- POST /billing/cancel
StartCancel(p, who) ==
    /\ breq[p].pc = "idle"
    /\ \E u \in who :
          breq' = [breq EXCEPT ![p] = [BIdle EXCEPT !.pc = "c_select", !.op = "cancel",
                                                   !.uid = u]]
    /\ UNCHANGED <<plans, subs, cache, processed, since>>
    /\ UNCHANGED authVars
    /\ UNCHANGED tradeVars
    /\ UNCHANGED limitVars

\* The SELECT of the active subscription, then stripe.Subscription.modify,
\* which succeeds (stripe_ok) or raises StripeError.
CancelSelect(p) ==
    /\ breq[p].pc = "c_select"
    /\ \E stripe_ok \in BOOLEAN :
          LET r == breq[p]
              row == subs[r.uid]
          IN breq' = [breq EXCEPT ![p] =
                 IF ~(ActiveSubscription(r.uid) /\ row.stripe_subscription_id # "")
                 THEN BRespond(r, 400, "No active subscription found")
                 ELSE IF ~stripe_ok
                 THEN BRespond(r, 400, "Failed to cancel subscription")
                 ELSE Loaded(r, r.uid, [row EXCEPT !.cancel_at_period_end = TRUE])]
    /\ UNCHANGED <<plans, subs, cache, processed, since>>
    /\ UNCHANGED authVars
    /\ UNCHANGED tradeVars
    /\ UNCHANGED limitVars

BReturn(p) ==
    /\ breq[p].pc = "done"
    /\ breq' = [breq EXCEPT ![p] = BIdle]
    /\ UNCHANGED <<plans, subs, cache, processed, since>>
    /\ UNCHANGED authVars
    /\ UNCHANGED tradeVars
    /\ UNCHANGED limitVars

\* The billing store before any plan is seeded, or after the seed.
InitEntitlements ==
    /\ InitAuth /\ plans \in {Catalog, Catalog \ {"free"}} /\ InitBilling
    /\ approved = {} /\ InitTrading /\ InitLimiter

\* The entitlement checks of user 1 in one slot and the billing requests about
\* user 1 in the other, interleaved at their awaits.
Checkers == {1}
Billers == {2}

NextEntitlements ==
    \/ Elapse
    \/ \E p \in Checkers :
          \/ StartResolve(p, {1})
          \/ ResolveSteps(p)
          \/ BReturn(p)
    \/ \E p \in Billers :
          \/ StartWebhook(p, EventsOfUser1)
          \/ WebhookSteps(p)
          \/ StartCancel(p, {1})
          \/ CancelSelect(p)
          \/ BReturn(p)

SpecEntitlements == InitEntitlements /\ [][NextEntitlements]_vars

\* Entitlement checks of every user, served one at a time between the
\* webhooks that change the status of the subscriptions.
NextFallback ==
    \/ Elapse
    \/ \E p \in Serial :
          \/ StartResolve(p, Payers)
          \/ ResolveSteps(p)
          \/ StartWebhook(p, StatusEvents)
          \/ WebhookSteps(p)
          \/ BReturn(p)

SpecFallback == InitEntitlements /\ [][NextFallback]_vars

\* An upgrade of user 1 and a downgrade of user 2.
PlanChanges ==
    {Event("checkout.session.completed", 1, "pro", SubOf(1), "", FALSE),
     Event("customer.subscription.deleted", 0, "", SubOf(2), "", FALSE)}

\* Users 1 and 2, either of whom an administrator may have approved for live
\* trading, place orders, served one at a time between an upgrade and a
\* downgrade.
InitOrders ==
    /\ InitAuth /\ plans = Catalog /\ InitBilling
    /\ approved \in SUBSET Payers /\ InitTrading /\ InitLimiter

NextOrders ==
    \/ Elapse
    \/ \E p \in Serial :
          \/ StartOrder(p, Payers)
          \/ OrderSteps(p)
          \/ StartWebhook(p, PlanChanges)
          \/ WebhookSteps(p)
          \/ BReturn(p)

SpecOrders == InitOrders /\ [][NextOrders]_vars

\* Entitlement checks and billing requests served one at a time, with Redis
\* failing at any of the checks' calls.
NextCacheOutage ==
    \/ Elapse
    \/ \E p \in Serial :
          \/ StartResolve(p, Payers)
          \/ ResolveSteps(p)
          \/ GGetFails(p) \/ GStoreFails(p)
          \/ StartWebhook(p, EventsOfUser1)
          \/ WebhookSteps(p)
          \/ BReturn(p)

SpecCacheOutage == InitEntitlements /\ [][NextCacheOutage]_vars

\* The events Stripe delivers more than once here: a paid and a failed invoice
\* of user 2's subscription, and the checkout of user 1.
RedeliveredEvents ==
    {Event("invoice.payment_succeeded", 0, "", SubOf(2), "", FALSE),
     Event("invoice.payment_failed", 0, "", SubOf(2), "", FALSE),
     Event("checkout.session.completed", 1, "pro", SubOf(1), "", FALSE)}

\* Webhook deliveries handled by two requests at once, interleaved at their
\* awaits.
NextDeliveries ==
    \E p \in Procs :
        \/ StartWebhook(p, RedeliveredEvents)
        \/ WebhookSteps(p)
        \/ BReturn(p)

SpecDeliveries == Init /\ [][NextDeliveries]_vars

\* ============================================================ rate limiter
\* middleware/rate_limit.py, for the requests of one client IP. The sorted set
\* under "rate_limit:<ip>" is kept as the set of its scores: the member of an
\* entry is str(current_time) and its score current_time, so two entries with
\* the same time are one member. admitted lists the current_time of the
\* requests let through with Redis answering.
LInFlight == {q \in Procs : lreq[q].pc \notin {"idle", "done"}}

\* time.time() moves on; Redis drops the key once its time to live is over.
WallTick ==
    /\ wall + WallStep <= MaxWall
    /\ wall' = wall + WallStep
    /\ IF expires_at # NULL /\ wall + WallStep >= expires_at
       THEN hits' = {} /\ expires_at' = NULL
       ELSE UNCHANGED <<hits, expires_at>>
    /\ UNCHANGED <<admitted, lreq>>
    /\ UNCHANGED authVars
    /\ UNCHANGED billVars
    /\ UNCHANGED tradeVars

\* dispatch calls is_rate_limited, which reads the clock.
LStart(p) ==
    /\ lreq[p].pc = "idle"
    /\ Len(admitted) + Cardinality(LInFlight) < MaxArrivals
    /\ lreq' = [lreq EXCEPT ![p] = [LIdle EXCEPT !.pc = "l_trim", !.current_time = wall]]
    /\ UNCHANGED <<hits, expires_at, wall, admitted>>
    /\ UNCHANGED authVars
    /\ UNCHANGED billVars
    /\ UNCHANGED tradeVars

\* zremrangebyscore(key, 0, window_start): the bounds are inclusive.
LTrim(p) ==
    /\ lreq[p].pc = "l_trim"
    /\ hits' = {h \in hits : h > lreq[p].current_time - window_size}
    /\ expires_at' = IF hits' = {} THEN NULL ELSE expires_at
    /\ lreq' = [lreq EXCEPT ![p].pc = "l_count"]
    /\ UNCHANGED <<wall, admitted>>
    /\ UNCHANGED authVars
    /\ UNCHANGED billVars
    /\ UNCHANGED tradeVars

\* zcard(key), then the comparison with max_requests: the 429, or on to zadd.
LCount(p) ==
    /\ lreq[p].pc = "l_count"
    /\ LET n == Cardinality(hits)
       IN lreq' = [lreq EXCEPT ![p] =
            IF n >= max_requests
            THEN [@ EXCEPT !.pc = "done", !.request_count = n, !.status = 429, !.path = "limited"]
            ELSE [@ EXCEPT !.pc = "l_add", !.request_count = n]]
    /\ UNCHANGED <<hits, expires_at, wall, admitted>>
    /\ UNCHANGED authVars
    /\ UNCHANGED billVars
    /\ UNCHANGED tradeVars

\* zadd(key, {str(current_time): current_time})
LAdd(p) ==
    /\ lreq[p].pc = "l_add"
    /\ hits' = hits \cup {lreq[p].current_time}
    /\ lreq' = [lreq EXCEPT ![p].pc = "l_expire"]
    /\ UNCHANGED <<expires_at, wall, admitted>>
    /\ UNCHANGED authVars
    /\ UNCHANGED billVars
    /\ UNCHANGED tradeVars

\* expire(key, window_size), then call_next: the request is let through.
LExpire(p) ==
    /\ lreq[p].pc = "l_expire"
    /\ expires_at' = IF hits = {} THEN NULL ELSE wall + window_size
    /\ admitted' = Append(admitted, lreq[p].current_time)
    /\ lreq' = [lreq EXCEPT ![p] = [@ EXCEPT !.pc = "done", !.status = 200, !.path = "admitted"]]
    /\ UNCHANGED <<hits, wall>>
    /\ UNCHANGED authVars
    /\ UNCHANGED billVars
    /\ UNCHANGED tradeVars

\* A Redis call raises: the except clause lets the request through.
LFail(p) ==
    /\ lreq[p].pc \in {"l_trim", "l_count", "l_add", "l_expire"}
    /\ lreq' = [lreq EXCEPT ![p] = [@ EXCEPT !.pc = "done", !.status = 200, !.path = "fail_open"]]
    /\ UNCHANGED <<hits, expires_at, wall, admitted>>
    /\ UNCHANGED authVars
    /\ UNCHANGED billVars
    /\ UNCHANGED tradeVars

LReturn(p) ==
    /\ lreq[p].pc = "done"
    /\ lreq' = [lreq EXCEPT ![p] = LIdle]
    /\ UNCHANGED <<hits, expires_at, wall, admitted>>
    /\ UNCHANGED authVars
    /\ UNCHANGED billVars
    /\ UNCHANGED tradeVars

\* The requests of one client IP, two at a time, with Redis failing at any call.
NextLimiter ==
    \/ WallTick
    \/ \E p \in Procs :
          \/ LStart(p)
          \/ LTrim(p) \/ LCount(p) \/ LAdd(p) \/ LExpire(p)
          \/ LFail(p)
          \/ LReturn(p)

SpecLimiter == Init /\ [][NextLimiter]_vars

\* ================================================================== claims
\* Request p takes its next step (the clock may also tick while it waits).
Steps(p) == req'[p].pc # req[p].pc

\* The row of the presented refresh token, whatever its flags; 0 when unknown.
RowOf(tok) ==
    IF \E i \in 1..Len(sessions) : sessions[i].refresh_token_hash = hash_token(tok)
    THEN CHOOSE i \in 1..Len(sessions) : sessions[i].refresh_token_hash = hash_token(tok)
    ELSE 0

\* A refresh call is at its Session lookup with a token whose row exists, has
\* not expired and is marked used.
UsedTokenPresented(p) ==
    /\ req[p].pc = "r_fetch"
    /\ RowOf(req[p].token) # 0
    /\ sessions[RowOf(req[p].token)].is_used
    /\ ~(now > sessions[RowOf(req[p].token)].expires_at)

\* The step in which a refresh call commits the revocation and returns.
ReuseReturns(p) == req[p].pc = "r_revoke_commit" /\ req'[p].pc = "done"

AllRevokedAfter(uid) ==
    \A i \in 1..Len(sessions') : sessions'[i].user_id = uid => sessions'[i].is_revoked

\* C1: two refresh calls that redeem the same token never both return a new
\* token pair (one of them is the reuse rejection), under every interleaving.
C1_SingleRedemption ==
    \A p \in Procs, q \in Procs :
        (/\ p # q
         /\ req[p].pc = "done" /\ req[p].op = "refresh"
         /\ req[q].pc = "done" /\ req[q].op = "refresh"
         /\ req[p].token = req[q].token)
        => ~(req[p].status = 200 /\ req[q].status = 200)

\* C2: served one after the other, a refresh of a used, live token trips reuse
\* detection, which leaves every session of that user revoked; a revoked session
\* stays revoked, and a refresh with the token of a revoked session is rejected
\* and issues nothing. So after refresh(T1) -> T2, refresh(T1) is the reuse
\* rejection and refresh(T2) is rejected too.
C2_SequentialCascade ==
    [][\A p \in Serial :
         /\ (Steps(p) /\ UsedTokenPresented(p) /\ ~sessions[RowOf(req[p].token)].is_revoked)
               => req'[p].pc = "r_revoke_read"
         /\ ReuseReturns(p)
               => (req'[p].detail = "Token reuse detected. All sessions have been revoked."
                   /\ req'[p].status = 401 /\ req'[p].issued = 0
                   /\ AllRevokedAfter(req[p].uid))
         /\ \A i \in 1..Len(sessions) : sessions[i].is_revoked => sessions'[i].is_revoked
         /\ (Steps(p) /\ req[p].pc = "r_fetch" /\ RowOf(req[p].token) # 0
             /\ sessions[RowOf(req[p].token)].is_revoked)
               => (req'[p].pc = "done" /\ req'[p].status = 401 /\ req'[p].issued = 0
                   /\ sessions' = sessions)]_vars

\* T1 was redeemed for T2, the reuse of T1 revoked both, and the refresh with T2
\* has just been rejected.
C2_Witness ==
    /\ Len(sessions) = 2
    /\ sessions[1].is_used /\ sessions[1].is_revoked
    /\ ~sessions[2].is_used /\ sessions[2].is_revoked
    /\ sessions[2].user_id = sessions[1].user_id
    /\ req[1].pc = "done" /\ req[1].op = "refresh" /\ req[1].token = 2
    /\ req[1].status = 401

WrongPasswordReturns(p) == req[p].pc = "a_commit_fail" /\ req'[p].pc = "done"

\* C4: each wrong-password authenticate on an unlocked account adds one to the
\* counter, and the account is locked, until now + 30 minutes, exactly when the
\* counter reaches 5; a password match sets the counter to 0. In every state an
\* account is locked iff its counter is 5.
C4_LockAtFifthFailure ==
    /\ [][\A p \in Serial :
            /\ WrongPasswordReturns(p)
                 => LET u == req[p].uid
                    IN /\ users'[u].failed_login_attempts = users[u].failed_login_attempts + 1
                       /\ users'[u].is_locked
                             <=> (users'[u].failed_login_attempts = MAX_FAILED_ATTEMPTS)
                       /\ users'[u].is_locked
                             => users'[u].locked_until = now + LOCKOUT_DURATION_MINUTES
            /\ (Steps(p) /\ req[p].pc = "a_commit_ok")
                 => (users'[req[p].uid].failed_login_attempts = 0
                     /\ ~users'[req[p].uid].is_locked)]_vars
    /\ [](\A u \in UserIds :
            /\ users[u].failed_login_attempts \in 0..MAX_FAILED_ATTEMPTS
            /\ users[u].is_locked <=> (users[u].failed_login_attempts = MAX_FAILED_ATTEMPTS))

\* The fifth wrong password in a row has just locked the account.
C4_Witness ==
    /\ req[1].pc = "done" /\ req[1].op = "login" /\ req[1].password = "bad"
    /\ req[1].uid = 1
    /\ users[1].is_locked /\ users[1].failed_login_attempts = 5
    /\ users[1].locked_until = now + LOCKOUT_DURATION_MINUTES

\* An authenticate call is at its user lookup, the account of its email is
\* locked and locked_until is still ahead.
LockedNotElapsed(p) ==
    /\ req[p].pc = "a_fetch"
    /\ \E u \in UserIds :
          /\ users[u].email = req[p].email /\ ~users[u].deleted
          /\ users[u].is_locked /\ users[u].locked_until > now

\* C5: while the lock runs, an authenticate call, whatever its password, is
\* rejected, creates no session and leaves the user row as it is.
C5_LockedCallIsFrame ==
    [][\A p \in Serial :
         (Steps(p) /\ LockedNotElapsed(p))
            => (/\ req'[p].pc = "done" /\ req'[p].status = 401 /\ req'[p].issued = 0
                /\ users' = users /\ sessions' = sessions)]_vars

\* The correct password was presented to a locked account and rejected.
C5_Witness ==
    /\ req[1].pc = "done" /\ req[1].op = "login" /\ req[1].password = "good"
    /\ req[1].status = 401 /\ req[1].uid = 1
    /\ users[1].is_locked /\ users[1].locked_until > now
    /\ users[1].failed_login_attempts = 5

\* An authenticate call is at its user lookup, the account of its email is
\* locked and locked_until has elapsed.
LockedElapsed(p) ==
    /\ req[p].pc = "a_fetch"
    /\ \E u \in UserIds :
          /\ users[u].email = req[p].email /\ ~users[u].deleted
          /\ users[u].is_locked /\ ~(users[u].locked_until > now)

\* C6: once locked_until has elapsed the next authenticate call first commits
\* the unlock (is_locked false, locked_until empty, counter 0); it then ends
\* unlocked with counter 1 on a wrong password and counter 0 on the correct one.
C6_LazyUnlock ==
    /\ [][\A p \in Serial :
            /\ (Steps(p) /\ LockedElapsed(p)) => req'[p].pc = "a_unlock"
            /\ (Steps(p) /\ req[p].pc = "a_unlock")
                 => (/\ ~users'[req[p].uid].is_locked
                     /\ users'[req[p].uid].locked_until = NULL
                     /\ users'[req[p].uid].failed_login_attempts = 0)]_vars
    /\ [](\A p \in Serial :
            (req[p].pc = "done" /\ req[p].unlocked)
               => (/\ ~users[req[p].uid].is_locked
                   /\ users[req[p].uid].locked_until = NULL
                   /\ users[req[p].uid].failed_login_attempts
                         = IF req[p].password = "good" THEN 0 ELSE 1))

\* A wrong password after the lock elapsed: unlocked, first attempt of a new window.
C6_Witness ==
    /\ req[1].pc = "done" /\ req[1].unlocked /\ req[1].password = "bad"
    /\ ~users[req[1].uid].is_locked
    /\ users[req[1].uid].failed_login_attempts = 1

\* C7: every wrong-password authenticate that commits on an account not locked
\* in the store raises the stored counter by one, under every interleaving.
C7_NoLostIncrement ==
    [][\A p \in Procs :
         (WrongPasswordReturns(p) /\ ~users[req[p].uid].is_locked)
            => users'[req[p].uid].failed_login_attempts
                  = users[req[p].uid].failed_login_attempts + 1]_vars

\* The one answer of a rejected login.
SameLoginRejection(r) ==
    r.pc = "done" /\ r.status = 401 /\ r.detail = "Invalid email or password" /\ r.issued = 0

\* C8: login answers 401 with the same message when the email has no live
\* account, when the account is locked, and when the password is wrong.
C8_UniformLoginRejection ==
    [][\A p \in Serial :
         /\ (Steps(p) /\ req[p].pc = "a_fetch"
             /\ ~\E u \in UserIds : users[u].email = req[p].email /\ ~users[u].deleted)
               => SameLoginRejection(req'[p])
         /\ (Steps(p) /\ LockedNotElapsed(p)) => SameLoginRejection(req'[p])
         /\ WrongPasswordReturns(p) => SameLoginRejection(req'[p])]_vars

\* A login for the soft-deleted account has been rejected.
C8_Witness ==
    /\ req[1].pc = "done" /\ req[1].op = "login"
    /\ req[1].email = "deleted_3@deleted.local"
    /\ req[1].status = 401 /\ req[1].uid = 0

\* The one answer of forgot-password.
SameForgotAnswer(r) ==
    /\ r.pc = "done" /\ r.status = 200
    /\ r.detail = "If the email exists, a password reset link has been sent"

\* C9: forgot-password gives one answer; without a live user of that email it
\* changes nothing and sends nothing; with one it stores the hash of a token
\* never issued before with its issue time and sends one email with the token.
C9_ResetAntiEnumeration ==
    [][\A p \in Serial :
         /\ (Steps(p) /\ req[p].pc = "f_fetch"
             /\ ~\E u \in UserIds : users[u].email = req[p].email /\ ~users[u].deleted)
               => (/\ SameForgotAnswer(req'[p])
                   /\ users' = users /\ outbox' = outbox /\ sessions' = sessions)
         /\ (Steps(p) /\ req[p].pc = "f_fetch"
             /\ \E u \in UserIds : users[u].email = req[p].email /\ ~users[u].deleted)
               => (/\ req'[p].pc = "f_commit"
                   /\ req'[p].cur.password_reset_sent_at = now
                   /\ \A m \in outbox : m.token # req'[p].gen
                   /\ \A u \in UserIds : users[u].password_reset_token # hash_token(req'[p].gen))
         /\ (Steps(p) /\ req[p].pc = "f_commit")
               => (/\ SameForgotAnswer(req'[p])
                   /\ users'[req[p].uid].password_reset_token = hash_token(req[p].gen)
                   /\ users'[req[p].uid].password_reset_token # req[p].gen
                   /\ users'[req[p].uid].password_reset_sent_at = req[p].cur.password_reset_sent_at
                   /\ outbox' = outbox \cup {[to |-> users[req[p].uid].email, kind |-> "reset",
                                              token |-> req[p].gen]}
                   /\ Cardinality(outbox') = Cardinality(outbox) + 1)]_vars

\* Both cases have happened: a reset was sent to a@x, and the request for an
\* email without account has just been answered.
C9_Witness ==
    /\ req[1].pc = "done" /\ req[1].op = "forgot" /\ req[1].email = "nobody@x"
    /\ req[1].status = 200
    /\ \E m \in outbox : m.to = "a@x"
    /\ users[1].password_reset_token # NoHash

\* C10: every rejection of mfa/verify is the answer given for an email without
\* account, so the answer tells nothing about the account.
C10_UniformMfaRejection ==
    \A p \in Serial :
        (req[p].pc = "done" /\ req[p].op = "mfa_verify" /\ req[p].status # 200)
           => (req[p].status = 401 /\ req[p].detail = "Invalid credentials")

\* The step in which reset_password commits and the endpoint answers.
ResetCommits(p) == req[p].pc = "p_commit" /\ req'[p].pc = "done"

\* C11: when completeReset succeeds for a user, every Session of that user is
\* revoked by its commit and the sessions of the other users are left as they
\* were; a revoked session stays revoked, and a refresh with the token of a
\* revoked session is rejected and issues nothing.
C11_ResetRevokesAllSessions ==
    [][\A p \in Serial :
         /\ ResetCommits(p)
               => (/\ req'[p].status = 200
                   /\ Len(sessions') = Len(sessions)
                   /\ \A i \in 1..Len(sessions) :
                         IF sessions[i].user_id = req[p].uid
                         THEN sessions'[i].is_revoked
                         ELSE sessions'[i] = sessions[i])
         /\ \A i \in 1..Len(sessions) : sessions[i].is_revoked => sessions'[i].is_revoked
         /\ (Steps(p) /\ req[p].pc = "r_fetch" /\ RowOf(req[p].token) # 0
             /\ sessions[RowOf(req[p].token)].is_revoked)
               => (req'[p].pc = "done" /\ req'[p].status = 401 /\ req'[p].issued = 0
                   /\ Len(sessions') = Len(sessions))]_vars

\* A reset has just succeeded for a user who held two sessions, both now
\* revoked, while a session of another user is still live.
C11_Witness ==
    /\ req[1].pc = "done" /\ req[1].op = "reset" /\ req[1].status = 200
    /\ Len(sessions) = 3
    /\ Cardinality({i \in 1..3 : sessions[i].user_id = req[1].uid /\ sessions[i].is_revoked}) = 2
    /\ \E j \in 1..3 : sessions[j].user_id # req[1].uid /\ ~sessions[j].is_revoked

\* Some live user holds the hash of reset token t.
TokenHeld(t) ==
    \E u \in UserIds : users[u].password_reset_token = hash_token(t) /\ ~users[u].deleted

\* C12: a completeReset that succeeds leaves its token held by no user; a token
\* that was sent out and is held by no user is never held again; a completeReset with a token held by no
\* user is rejected and changes neither a user row nor a session; so is one with
\* a token issued more than 60 minutes ago.
C12_ResetTokenSingleUse ==
    [][/\ \A p \in Serial :
            /\ ResetCommits(p) => ~TokenHeld(req[p].token)'
            /\ (Steps(p) /\ req[p].pc = "p_fetch" /\ ~TokenHeld(req[p].token))
                  => (/\ req'[p].pc = "done" /\ req'[p].status = 400
                      /\ req'[p].detail = "Invalid reset token"
                      /\ users' = users /\ sessions' = sessions)
            /\ (Steps(p) /\ req[p].pc = "p_fetch"
                /\ \E u \in UserIds :
                      /\ users[u].password_reset_token = hash_token(req[p].token)
                      /\ ~users[u].deleted
                      /\ now > users[u].password_reset_sent_at + RESET_VALIDITY_MINUTES)
                  => (/\ req'[p].pc = "done" /\ req'[p].status = 400
                      /\ req'[p].detail = "Reset token has expired"
                      /\ users' = users /\ sessions' = sessions)
       /\ \A m \in outbox : ~TokenHeld(m.token) => ~TokenHeld(m.token)']_vars

\* The only token ever sent to a@x has completed a reset to one password; the
\* second completeReset with it, asking for another password, was rejected.
C12_Witness ==
    /\ req[1].pc = "done" /\ req[1].op = "reset" /\ req[1].status = 400
    /\ req[1].detail = "Invalid reset token"
    /\ \E m \in outbox : m.to = "a@x" /\ m.token = req[1].token
    /\ \A m \in outbox : m.to = "a@x" => m.token = req[1].token
    /\ users[1].password_hash = hash_password("new1")
    /\ req[1].new_password = "new2"

\* The presented code, upper-cased, is the code of an unused backup code of the user.
UnusedCodeMatches(p) ==
    \E b \in backup_codes[req[p].uid] :
        ~b.is_used /\ b.code_hash = hash_password(Upper(req[p].code))

\* C13: a completeMFA call that falls through to the backup codes succeeds when
\* its code matches an unused backup code, marking that one code used and no
\* other, and fails with the invalid-code error, changing no code, when it
\* matches none; a used code is never unused again. So the second redemption of
\* a backup code fails.
C13_BackupCodeSingleUse ==
    [][\A p \in Serial :
         /\ (Steps(p) /\ req[p].pc = "m_backup" /\ UnusedCodeMatches(p))
               => (req'[p].pc = "m_commit_backup"
                   /\ req'[p].bk = hash_password(Upper(req[p].code)))
         /\ (Steps(p) /\ req[p].pc = "m_commit_backup")
               => (/\ req'[p].pc = "cs_commit"
                   /\ \A u \in UserIds : \A b \in backup_codes[u] :
                         IF u = req[p].uid /\ b.code_hash = req[p].bk
                         THEN ~b.is_used /\ [b EXCEPT !.is_used = TRUE] \in backup_codes'[u]
                         ELSE b \in backup_codes'[u]
                   /\ \A u \in UserIds :
                         Cardinality(backup_codes'[u]) = Cardinality(backup_codes[u]))
         /\ (Steps(p) /\ req[p].pc = "cs_commit" /\ req[p].path = "mfa_backup")
               => (req'[p].status = 200 /\ req'[p].issued # 0)
         /\ (Steps(p) /\ req[p].pc = "m_backup" /\ ~UnusedCodeMatches(p))
               => (/\ req'[p].pc = "done" /\ req'[p].status = 401
                   /\ req'[p].detail = "Invalid MFA code" /\ req'[p].issued = 0
                   /\ backup_codes' = backup_codes /\ sessions' = sessions)
         /\ \A u \in UserIds : \A b \in backup_codes[u] :
               b.is_used => b \in backup_codes'[u]]_vars

\* The backup code BK1 was redeemed once (a session exists), and the call that
\* presented it again has just failed; BK2 is still unused.
C13_Witness ==
    /\ req[1].pc = "done" /\ req[1].op = "mfa_verify" /\ req[1].code = "BK1"
    /\ req[1].status = 401 /\ req[1].detail = "Invalid MFA code"
    /\ [code_hash |-> hash_password("BK1"), is_used |-> TRUE] \in backup_codes[2]
    /\ [code_hash |-> hash_password("BK2"), is_used |-> FALSE] \in backup_codes[2]
    /\ Len(sessions) = 1

\* A confirm request of a live, unlocked user is about to run its endpoint body.
ConfirmArrives(p) ==
    /\ req[p].pc = "u_fetch" /\ req[p].op = "mfa_confirm"
    /\ ~users[req[p].actor].deleted /\ ~users[req[p].actor].is_locked

C15_DisableClearsAtomically ==
    /\ [][\A p \in Serial :
            /\ (Steps(p) /\ req[p].pc = "d_delete")
                  => (users' = users /\ backup_codes' = backup_codes)
            /\ (Steps(p) /\ req[p].pc = "d_commit")
                  => (/\ req'[p].pc = "done" /\ req'[p].status = 200
                      /\ ~users'[req[p].uid].mfa_enabled
                      /\ users'[req[p].uid].mfa_secret = ""
                      /\ backup_codes'[req[p].uid] = {}
                      /\ \A u \in UserIds \ {req[p].uid} :
                            users'[u] = users[u] /\ backup_codes'[u] = backup_codes[u])]_vars
    /\ [](\A u \in UserIds : (users[u].mfa_secret = "") <=> (backup_codes[u] = {}))

\* User 2, who had MFA enabled and held backup codes, has just disabled MFA:
\* no secret, no backup code row.
C15_Witness ==
    /\ req[1].pc = "done" /\ req[1].op = "mfa_disable" /\ req[1].status = 200 /\ req[1].uid = 2
    /\ ~users[2].mfa_enabled /\ users[2].mfa_secret = "" /\ backup_codes[2] = {}

\* An authenticate call is at its user lookup; the account is live, not locked,
\* has MFA enabled, and the presented password matches.
MatchOnMfaAccount(p) ==
    /\ req[p].pc = "a_fetch"
    /\ \E u \in UserIds :
          /\ users[u].email = req[p].email /\ ~users[u].deleted
          /\ ~users[u].is_locked /\ users[u].mfa_enabled
          /\ verify_password(req[p].password, users[u].password_hash)

\* C16: a password match on an account with mfa_enabled commits
\* failed_login_attempts = 0 and nothing else: no Session row, no last_login_at
\* stamp; a login request without MFA code is then answered requires_mfa with an
\* empty access token and no refresh token.
C16_MfaAccountGetsNoSession ==
    [][\A p \in Serial :
         /\ (Steps(p) /\ MatchOnMfaAccount(p)) => req'[p].pc = "a_commit_ok"
         /\ (Steps(p) /\ req[p].pc = "a_commit_ok" /\ req[p].cur.mfa_enabled)
               => (/\ users'[req[p].uid].failed_login_attempts = 0
                   /\ users'[req[p].uid].last_login_at = users[req[p].uid].last_login_at
                   /\ sessions' = sessions
                   /\ req'[p].pc # "a_commit_login" /\ req'[p].pc # "cs_commit"
                   /\ req[p].code = NoCode
                         => (/\ req'[p].pc = "done" /\ req'[p].status = 200
                             /\ req'[p].detail = "requires_mfa"
                             /\ req'[p].access = "" /\ req'[p].issued = 0))]_vars

\* The correct password for the MFA account b@x, sent without MFA code, has
\* been answered requires_mfa: counter 0, no session, no stamp, no token.
C16_Witness ==
    /\ req[1].pc = "done" /\ req[1].op = "login" /\ req[1].email = "b@x"
    /\ req[1].password = "good" /\ req[1].code = NoCode
    /\ req[1].detail = "requires_mfa" /\ req[1].access = "" /\ req[1].issued = 0
    /\ users[2].failed_login_attempts = 0 /\ users[2].last_login_at = NULL
    /\ sessions = <<>>

\* C17: logout always answers 200: without cookie or with a token that has no
\* Session row it changes nothing; with a token that has one (revoked already or
\* not) its commit leaves that row with is_revoked = true, every other column of
\* it and every other Session as they were.
C17_LogoutIdempotent ==
    [][\A p \in Serial :
         /\ (Steps(p) /\ req[p].pc = "o_fetch" /\ RowOf(req[p].token) = 0)
               => (/\ req'[p].pc = "done" /\ req'[p].status = 200
                   /\ req'[p].detail = "Logged out successfully"
                   /\ sessions' = sessions /\ users' = users /\ audit' = audit)
         /\ (Steps(p) /\ req[p].pc = "o_fetch" /\ RowOf(req[p].token) # 0)
               => (req'[p].pc = "o_commit" /\ req'[p].sid = RowOf(req[p].token)
                   /\ sessions' = sessions)
         /\ (Steps(p) /\ req[p].pc = "o_commit")
               => (/\ req'[p].pc = "done" /\ req'[p].status = 200
                   /\ req'[p].detail = "Logged out successfully"
                   /\ sessions' = [sessions EXCEPT ![RowOf(req[p].token)].is_revoked = TRUE]
                   /\ users' = users)]_vars

\* A logout with the token of a session that was revoked before: the row was
\* loaded revoked and is revoked; another session of the user is still live.
C17_Witness ==
    /\ req[1].pc = "done" /\ req[1].op = "logout" /\ req[1].status = 200
    /\ req[1].loaded_revoked
    /\ sessions[RowOf(req[1].token)].is_revoked
    /\ \E i \in 1..Len(sessions) :
          /\ sessions[i].user_id = sessions[RowOf(req[1].token)].user_id
          /\ ~sessions[i].is_revoked

\* A revokeSession request of a live, unlocked caller is at its session lookup.
RevokeArrives(p) == req[p].pc = "x_get" /\ req[p].op = "revoke_session"

\* The session the request names exists and belongs to the caller.
OwnSession(p) ==
    req[p].sid \in 1..Len(sessions) /\ sessions[req[p].sid].user_id = req[p].uid

\* C18: listSessions returns exactly the caller's sessions that are not
\* revoked; revokeSession on a session id that names no session, or a session
\* of another user, is rejected as not found and changes nothing; on an own
\* session already revoked it is rejected as a client error and changes
\* nothing; otherwise it revokes exactly that session.
C18_OwnSessionsOnly ==
    [][\A p \in Serial :
         /\ (Steps(p) /\ req[p].pc = "l_select")
               => (/\ req'[p].status = 200 /\ sessions' = sessions
                   /\ req'[p].listed =
                         {i \in 1..Len(sessions) :
                             sessions[i].user_id = req[p].actor /\ ~sessions[i].is_revoked})
         /\ (Steps(p) /\ RevokeArrives(p) /\ ~OwnSession(p))
               => (/\ req'[p].pc = "done" /\ req'[p].status = 404
                   /\ sessions' = sessions /\ users' = users)
         /\ (Steps(p) /\ RevokeArrives(p) /\ OwnSession(p) /\ sessions[req[p].sid].is_revoked)
               => (/\ req'[p].pc = "done" /\ req'[p].status = 400
                   /\ sessions' = sessions /\ users' = users)
         /\ (Steps(p) /\ RevokeArrives(p) /\ OwnSession(p) /\ ~sessions[req[p].sid].is_revoked)
               => req'[p].pc = "x_commit"
         /\ (Steps(p) /\ req[p].pc = "x_commit")
               => (/\ req'[p].pc = "done" /\ req'[p].status = 200
                   /\ sessions' = [sessions EXCEPT ![req[p].sid].is_revoked = TRUE]
                   /\ users' = users)]_vars

\* A billing request has committed a change to the subscription of user u and
\* has not yet deleted the user's entitlements key.
InvalidationPending(u) == \E q \in Procs : breq[q].pc = "h_invalidate" /\ breq[q].row = u

\* The step in which the entitlement check of slot p, just begun, is answered
\* from the cache.
ServedFromCache(p) == breq[p].pc = "g_get" /\ breq'[p].pc = "done"

\* C19: once every invalidation of a user's entitlements key has completed, an
\* entitlement check that begins for that user and is answered from the cache
\* gets the plan name and the features the billing store holds at that moment,
\* whatever checks were in flight while the invalidation ran.
C19_ResolveAfterInvalidateIsCurrent ==
    [][\A p \in Procs :
          (ServedFromCache(p) /\ ~InvalidationPending(breq[p].uid))
             => /\ breq'[p].plan_name = LoadEntitlements(breq[p].uid).plan_name
                /\ breq'[p].features = LoadEntitlements(breq[p].uid).features]_vars

\* The entitlements key of user u holds something other than what the billing
\* store entitles the user to.
StaleEntry(u) ==
    /\ cache[u] # NoEntry
    /\ \/ cache[u].plan_name # LoadEntitlements(u).plan_name
       \/ cache[u].features # LoadEntitlements(u).features

\* The step in which billing request p commits a change to a subscription row.
CommitsChange(p) == breq[p].pc = "h_commit" /\ subs' # subs

\* The step in which billing request p returns from invalidate_entitlements_cache.
Invalidated(p) == breq[p].pc = "h_invalidate" /\ breq'[p].pc # "h_invalidate"

EndsAtCacheCall(p) ==
    /\ breq[p].op = "resolve"
    /\ breq[p].pc \in {"g_get", "g_store"}
    /\ breq'[p].pc = "done"

\* C21: an entitlement check never ends in a rejection at a call to the cache:
\* whether the call succeeds or fails it answers 200, and what it answers
\* after reading the store is what the store entitles the user to.
C21_CacheOutageStillResolves ==
    [][\A p \in Procs :
          EndsAtCacheCall(p) =>
             /\ breq'[p].status = 200
             /\ breq[p].pc = "g_store" =>
                   /\ breq'[p].plan_name = LoadEntitlements(breq[p].uid).plan_name
                   /\ breq'[p].features = LoadEntitlements(breq[p].uid).features]_vars

\* The subscription of user u, if any, is in a status other than active.
NoActivePlan(u) == ~subs[u].exists \/ subs[u].status # "active"

\* The feature set of the fallback: the stored rows of the "free" plan, or the
\* five hardcoded defaults when no such plan is stored.
FreeFeatureSet ==
    IF "free" \in plans
    THEN [live_trading_enabled |-> "false", signal_delay_minutes |-> "15",
          max_watchlist_symbols |-> "5", daily_api_requests |-> "100",
          realtime_alerts_enabled |-> "false", backtest_enabled |-> "false",
          paper_trading_enabled |-> "true"]
    ELSE [live_trading_enabled |-> "false", signal_delay_minutes |-> "15",
          max_watchlist_symbols |-> "5", daily_api_requests |-> "100",
          realtime_alerts_enabled |-> "false"]

LooksUp(p) ==
    /\ breq[p].op = "resolve"
    /\ breq[p].pc \in {"g_get", "g_load"}
    /\ breq'[p].pc \in {"g_store", "done"}

\* C23: whatever plan changes have been committed, and however recently the
\* user's entitlements were resolved before, the answer a check looks up is
\* the plan name and the features of the subscription now in the store, and
\* the lookup does not fail.
C23_NextResolveSeesPlanChange ==
    [][\A p \in Procs :
          LooksUp(p) =>
             /\ breq'[p].pc = "done" => breq'[p].status = 200
             /\ breq'[p].plan_name = LoadEntitlements(breq[p].uid).plan_name
             /\ breq'[p].features = LoadEntitlements(breq[p].uid).features]_vars

\* The entitlements resolved for the order request of slot p grant live
\* trading, and the user of the request is approved for it.
LiveEntitled(p) ==
    /\ "live_trading_enabled" \in DOMAIN breq[p].features
    /\ breq[p].features["live_trading_enabled"] = "true"

LiveAllowed(p) == LiveEntitled(p) /\ breq[p].uid \in approved

\* The step in which the order request of slot p passes or fails the checks
\* of place_order.
Checked(p) == breq[p].pc = "o_check" /\ breq'[p].pc # "o_check"

\* C24: the broker gets an order only from a request at its checks, and a live
\* one only if that request's entitlements grant live trading and its user is
\* approved; a live request for which either fails ends with 403 and neither
\* places nor stores an order; a paper request never ends with 403; and an
\* order row is stored only for an order the broker has accepted.
C24_LiveOrdersAreGated ==
    /\ [][/\ placed' # placed =>
                \E p \in Procs :
                   /\ Checked(p)
                   /\ placed' = Append(placed, [user_id |-> breq[p].uid, mode |-> breq[p].mode])
                   /\ breq[p].mode = "live" => LiveAllowed(p)
          /\ orders' # orders =>
                \E p \in Procs, i \in 1..Len(placed) :
                   /\ breq[p].pc = "o_save"
                   /\ placed[i] = [user_id |-> breq[p].uid, mode |-> breq[p].mode]
                   /\ orders' = Append(orders, placed[i])
          /\ \A p \in Procs :
                /\ (Checked(p) /\ breq[p].mode = "live" /\ ~LiveAllowed(p)) =>
                      /\ breq'[p].pc = "done" /\ breq'[p].status = 403
                      /\ placed' = placed /\ orders' = orders
                /\ (Checked(p) /\ breq[p].mode = "paper") => breq'[p].status # 403]_vars
    /\ [](\A i \in 1..Len(placed) :
             placed[i].mode = "live" => placed[i].user_id \in approved)

\* C24 witness: a live order of an approved user is stored, and a later order
\* request has been rejected with 403.
C24_Witness ==
    /\ \E i \in 1..Len(orders) : orders[i].mode = "live" /\ orders[i].user_id \in approved
    /\ \E p \in Procs : breq[p].pc = "done" /\ breq[p].op = "order" /\ breq[p].status = 403

\* ---------------------------------------------------------------------- C25
\* The email each account was registered with.
OriginalEmail(u) == IF u = 1 THEN "a@x" ELSE IF u = 2 THEN "b@x" ELSE "c@x"

\* The request in slot p has been answered.
Answered(p, op) == req[p].pc = "done" /\ req[p].op = op

\* C25: soft delete is terminal. Served one at a time: no step clears a set
\* deleted_at; a DELETE /account answered with 200 has set it; while it is set
\* every session of the user is revoked and the user has no backup code; a
\* login with the original email ends as a login with an unknown email does;
\* forgot-password for it changes nothing and sends nothing; and
\* get_current_user answers a bearer token of the user with 401.
C25_SoftDeleteIsTerminal ==
    /\ [][\A u \in UserIds : users[u].deleted => users'[u].deleted]_vars
    /\ [](\A p \in Serial :
            Answered(p, "delete_account") /\ req[p].status = 200 => users[req[p].actor].deleted)
    /\ [](\A u \in UserIds :
            users[u].deleted => LiveSessionsOf(u) = {} /\ backup_codes[u] = {})
    /\ [](\A p \in Serial, u \in UserIds :
            Answered(p, "login") /\ users[u].deleted /\ req[p].email = OriginalEmail(u)
            => /\ req[p].path = "user_not_found" /\ req[p].status = 401
               /\ req[p].issued = 0 /\ req[p].uid = 0)
    /\ [][\A p \in Serial, u \in UserIds :
            /\ req[p].pc = "f_fetch" /\ users[u].deleted /\ req[p].email = OriginalEmail(u)
            => /\ users' = users /\ outbox' = outbox /\ reset_seq' = reset_seq
               /\ req'[p].pc = "done" /\ req'[p].path = "no_user"]_vars
    /\ [][\A p \in Serial :
            req[p].pc = "u_fetch" /\ users[req[p].actor].deleted
            => req'[p].pc = "done" /\ req'[p].status = 401]_vars

\* C25 witness: user 2, who had logged in and held backup codes, has deleted
\* the account, and a later login with "b@x" has been answered.
C25_Witness ==
    /\ users[2].deleted
    /\ \E i \in 1..Len(sessions) : sessions[i].user_id = 2
    /\ audit # {} /\ AuditRec(2, "account_deleted", TRUE) \in audit
    /\ Answered(1, "login") /\ req[1].email = "b@x"

\* ---------------------------------------------------------------------- C26
\* The step sets is_used on the stored session i.
MarksUsed(i) == ~sessions[i].is_used /\ sessions'[i].is_used

\* The step stores one more session row: a successor of user uid, neither used
\* nor revoked.
StoresSuccessor(uid) ==
    /\ Len(sessions') = Len(sessions) + 1
    /\ LET n == sessions'[Len(sessions')]
       IN n.user_id = uid /\ ~n.is_used /\ ~n.is_revoked

\* C26: refresh rotation is atomic. With refreshes and logins interleaved and
\* cancelled at any await: a step that marks a session used stores its successor
\* in the same step; a refresh that stores a successor leaves its session marked
\* in the same step; a cancelled request leaves the stored sessions as they
\* were; and every stored session that is used has a later session of its user.
C26_RotationIsAtomic ==
    /\ [][\A i \in 1..Len(sessions) : MarksUsed(i) => StoresSuccessor(sessions[i].user_id)]_vars
    /\ [][\A p \in Procs :
            req[p].op = "refresh" /\ req'[p] # req[p] /\ Len(sessions') > Len(sessions)
            => sessions'[req[p].sid].is_used /\ StoresSuccessor(req[p].uid)]_vars
    /\ [][\A p \in Procs :
            req[p].pc \notin {"idle", "done"} /\ req'[p].pc = "idle" => sessions' = sessions]_vars
    /\ [](\A i \in 1..Len(sessions) :
            sessions[i].is_used
            => \E j \in (i + 1)..Len(sessions) : sessions[j].user_id = sessions[i].user_id)

\* C26 witness: a refresh has been answered with its new token pair while the
\* other slot holds a refresh that has built its successor and not committed.
C26_Witness ==
    /\ \E p \in Procs :
          /\ Answered(p, "refresh") /\ req[p].path = "refreshed"
          /\ sessions[req[p].sid].is_used
    /\ \E q \in Procs : req[q].pc = "r_commit"

\* ---------------------------------------------------------------------- C27
\* The audit table holds a failure record of user uid.
FailureRecorded(uid) == \E a \in audit : a.user_id = uid /\ ~a.success

\* C27: every refresh that detects the reuse of a used token has appended an
\* audit record of that user with success = false by the time its rejection is
\* returned.
C27_ReuseIsAudited ==
    \A p \in Serial :
        Answered(p, "refresh") /\ req[p].path = "reuse" => FailureRecorded(req[p].uid)

\* ---------------------------------------------------------------------- C28
\* The audit action of a rejected login, by the branch that rejected it.
FailureAction(path) == IF path = "mfa_failed" THEN "login_mfa_failed" ELSE "login_failed"

\* C28: once a login request has ended rejected (unknown email, locked account,
\* wrong password, wrong MFA code), the audit table holds its record with
\* success = false, with the user's id when the user was found and none (0)
\* for an unknown email.
C28_FailuresAreAudited ==
    \A p \in Serial :
        (/\ Answered(p, "login")
         /\ req[p].path \in {"user_not_found", "account_locked", "invalid_password", "mfa_failed"})
        => AuditRec(req[p].uid, FailureAction(req[p].path), FALSE) \in audit

\* ---------------------------------------------------------------------- C29
\* A refresh call is at its Session lookup with a token whose row exists and has
\* expired.
ExpiredTokenPresented(p) ==
    /\ req[p].pc = "r_fetch"
    /\ RowOf(req[p].token) # 0
    /\ now > sessions[RowOf(req[p].token)].expires_at

\* The step ends the call with a 401 and leaves the store as it was.
RejectedUnchanged(p, detail) ==
    /\ req'[p].pc = "done" /\ req'[p].status = 401 /\ req'[p].detail = detail
    /\ req'[p].issued = 0
    /\ sessions' = sessions /\ users' = users /\ audit' = audit
    /\ backup_codes' = backup_codes

\* C29 as stated: a refresh with a token whose Session has expired is rejected
\* as expired and changes no state, whatever the flags of the Session.
C29_ExpiredWhateverFlags ==
    [][\A p \in Serial :
         (Steps(p) /\ ExpiredTokenPresented(p))
            => RejectedUnchanged(p, "Refresh token has expired")]_vars

\* C29 as amended: a refresh with a token whose Session has expired and is not
\* revoked is rejected as expired, also when the Session is used; when the
\* Session is revoked the call is rejected as an invalid token; either way no
\* state changes.
C29_ExpiredWhenNotRevoked ==
    [][\A p \in Serial :
         /\ (Steps(p) /\ ExpiredTokenPresented(p) /\ ~sessions[RowOf(req[p].token)].is_revoked)
               => RejectedUnchanged(p, "Refresh token has expired")
         /\ (Steps(p) /\ ExpiredTokenPresented(p) /\ sessions[RowOf(req[p].token)].is_revoked)
               => RejectedUnchanged(p, "Invalid refresh token")]_vars

\* C29 witness: a token that was redeemed before it expired has been presented
\* after its expiry, while a later session of the user is live: the call ended
\* as expired.
C29_Witness ==
    /\ Answered(1, "refresh") /\ req[1].detail = "Refresh token has expired"
    /\ RowOf(req[1].token) # 0
    /\ sessions[RowOf(req[1].token)].is_used
    /\ \E i \in 1..Len(sessions) :
          /\ sessions[i].user_id = sessions[RowOf(req[1].token)].user_id
          /\ ~sessions[i].is_revoked /\ ~sessions[i].is_used

\* ---------------------------------------------------------------------- C30
\* C30: in every reachable state, a user's stored mfa_secret is present only if
\* the user's mfa_enabled is true.
C30_SecretOnlyIfEnabled ==
    \A u \in UserIds : users[u].mfa_secret # "" => users[u].mfa_enabled

\* ---------------------------------------------------------------------- C31
\* The lockout columns of a user row.
LockColumns(u) == <<u.failed_login_attempts, u.is_locked, u.locked_until>>

\* C31: an mfa/verify call that is rejected is rejected by a step that writes
\* nothing: the lockout columns of every user and every backup code row are as
\* before, and the call made no write earlier on; so with any number of wrong
\* codes no account is ever locked and the counter stays at 0.
C31_MfaFailureCountsNothing ==
    /\ [][\A p \in Serial :
            (req[p].op = "mfa_verify" /\ Steps(p) /\ req'[p].pc = "done" /\ req'[p].status # 200)
            => /\ req[p].pc \in {"v_fetch", "m_backup"}
               /\ \A u \in UserIds : LockColumns(users'[u]) = LockColumns(users[u])
               /\ backup_codes' = backup_codes /\ sessions' = sessions]_vars
    /\ [][\A p \in Serial :
            req[p].pc \in {"v_fetch", "m_backup"}
            => users' = users /\ backup_codes' = backup_codes]_vars
    /\ [](\A u \in UserIds : ~users[u].is_locked /\ users[u].failed_login_attempts = 0)

\* C31 witness: a wrong code for the MFA account "b@x" has been rejected after
\* the scan of the backup codes, none of which is marked used.
C31_Witness ==
    /\ Answered(1, "mfa_verify") /\ req[1].path = "mfa_failed" /\ req[1].uid = 2
    /\ \A b \in backup_codes[2] : ~b.is_used
    /\ ~users[2].is_locked

\* ---------------------------------------------------------------------- C32
\* Deliveries p and q carry the same Stripe event.
SameEvent(p, q) ==
    /\ breq[p].op = "webhook" /\ breq[q].op = "webhook"
    /\ breq[p].event = breq[q].event /\ breq[p].type = breq[q].type
    /\ breq[p].sub_id = breq[q].sub_id

\* Delivery q has run its handler to the end, audit record included, and has
\* not marked the event yet.
HandlerApplied(q) ==
    breq[q].pc = "w_mark" /\ breq[q].type \in AuditedTypes /\ breq[q].row # 0

\* The step in which delivery p commits its handler's audit record.
AppliesHandler(p) == breq[p].pc = "h_audit" /\ breq'[p].pc = "w_mark"

\* C32: webhook handling is idempotent per event id. Of two deliveries of the
\* same event, also when handled at once, none applies the handler's effects
\* once the other has applied them; and a delivery that ends in an error does
\* not mark the event processed.
C32_EventAppliedAtMostOnce ==
    /\ [][\A p \in Procs, q \in Procs :
            (p # q /\ SameEvent(p, q) /\ HandlerApplied(q)) => ~AppliesHandler(p)]_vars
    /\ [][\A p \in Procs :
            (breq[p].op = "webhook" /\ breq[p].pc # "done"
             /\ breq'[p].pc = "done" /\ breq'[p].status # 200)
            => processed' = processed]_vars

\* ---------------------------------------------------------------------- C33
\* The requests let through whose timestamp lies in the 60 seconds from t on.
AdmittedIn(t) == {i \in 1..Len(admitted) : admitted[i] >= t /\ admitted[i] < t + window_size}

\* C33: per client IP at most max_requests admitted requests have their
\* timestamps in one 60-second window, whatever the arrival pattern; a refused
\* request leaves the window as it was; a request that meets a failing Redis
\* call is let through.
C33_AtMostMaxPerWindow ==
    /\ [](\A t \in 0..MaxWall : Cardinality(AdmittedIn(t)) <= max_requests)
    /\ [][\A p \in Procs :
            (lreq[p].pc # "done" /\ lreq'[p].pc = "done" /\ lreq'[p].status = 429)
            => hits' = hits]_vars
    /\ [](\A p \in Procs : lreq[p].path = "fail_open" => lreq[p].status = 200)

\* ---------------------------------------------------------------------- C34
\* Request p is a login that has verified the user's password and, for an
\* account with MFA, an MFA code.
VerifiedLogin(p) ==
    /\ req[p].op = "login" /\ req[p].uid # 0
    /\ verify_password(req[p].password, users[req[p].uid].password_hash)
    /\ users[req[p].uid].mfa_enabled => req[p].path \in {"mfa_totp", "mfa_backup"}

\* C34: a step that stores a new Session belongs to a login that verified the
\* password (and an MFA code when MFA is on) or to a refresh; no request that
\* presented no correct password gets a token pair.
C34_SessionsNeedPassword ==
    [][\A p \in Serial :
         (Steps(p) /\ Len(sessions') > Len(sessions))
         => (req[p].op = "refresh" \/ VerifiedLogin(p))]_vars

\* ---------------------------------------------------------------------- C35
\* C35: for every user that is not deleted, under every interleaving of enable,
\* confirm, disable and login requests, mfa_enabled = true implies that
\* mfa_secret is present, and no login ends in the answer completeMFA gives when
\* it finds no usable MFA setup.
C35_EnabledHasSecret ==
    /\ \A u \in UserIds :
          (~users[u].deleted /\ users[u].mfa_enabled) => users[u].mfa_secret # ""
    /\ \A p \in Procs :
          Answered(p, "login") => req[p].path # "mfa_not_enabled"

\* ---------------------------------------------------------------------- C36
\* C36: in every reachable state of a user, concurrent authenticate calls
\* included, failed_login_attempts is between 0 and 5, and is_locked = true
\* implies that locked_until is set and failed_login_attempts = 5.
C36_LockColumnsConsistent ==
    \A u \in UserIds :
        /\ users[u].failed_login_attempts \in 0..MAX_FAILED_ATTEMPTS
        /\ users[u].is_locked
              => /\ users[u].locked_until # NULL
                 /\ users[u].failed_login_attempts = MAX_FAILED_ATTEMPTS

\* ---------------------------------------------------------------------- C37
\* C37: when two completeMFA calls present the same unused backup code
\* concurrently, at most one of them succeeds: a call goes on to its session
\* only while the code it matched is still unused in the store, so no two
\* answered requests hold a token pair for the same backup code.
C37_BackupCodeRedeemedOnce ==
    /\ [][\A p \in Procs :
            (req[p].pc = "m_commit_backup" /\ req'[p].pc = "cs_commit")
               => \E b \in backup_codes[req[p].uid] :
                     b.code_hash = req[p].bk /\ ~b.is_used]_vars
    /\ [](\A p, q \in Procs :
            (p # q /\ Answered(p, "mfa_verify") /\ Answered(q, "mfa_verify")
             /\ req[p].path = "mfa_backup" /\ req[q].path = "mfa_backup")
               => req[p].bk # req[q].bk)

\* ---------------------------------------------------------------------- C38
\* C38: a user never has more than one batch of backup codes: in every state
\* reached by enable, confirm and disable calls a user has at most 10 backup
\* code rows, and when an enable() has committed, the unused (redeemable) codes
\* of the user are codes that this enable() returned.
C38_OneBatchOfCodes ==
    /\ [](\A u \in UserIds : Cardinality(backup_codes[u]) <= BACKUP_CODE_COUNT)
    /\ [][\A p \in Serial :
            (req[p].pc = "e_commit" /\ req'[p].pc = "done")
               => UnusedCodes(backup_codes'[req[p].uid]) \subseteq req[p].new_codes]_vars

\* ---------------------------------------------------------------------- C39
\* C39: session flags are monotonic: no step takes is_revoked or is_used of a
\* session from true back to false; and once a session is revoked (by logout,
\* revokeSession, password reset, reuse detection or account deletion) a refresh
\* with its token ends rejected: no token pair, no new session.
C39_FlagsAreMonotonic ==
    /\ [][\A i \in 1..Len(sessions) :
            /\ sessions[i].is_revoked => sessions'[i].is_revoked
            /\ sessions[i].is_used => sessions'[i].is_used]_vars
    /\ [][\A p \in Serial :
            (req[p].op = "refresh" /\ RowOf(req[p].token) # 0
             /\ sessions[RowOf(req[p].token)].is_revoked)
               => /\ Len(sessions') = Len(sessions)
                  /\ req'[p].pc = "done" => (req'[p].status = 401 /\ req'[p].issued = 0
                                              /\ req'[p].access # "jwt")]_vars

\* A refresh with the token of a session that was revoked without being used
\* (by logout, revocation, reset or deletion) has just been rejected, while
\* another session of the run is used.
C39_Witness ==
    /\ Answered(1, "refresh") /\ RowOf(req[1].token) # 0
    /\ sessions[RowOf(req[1].token)].is_revoked
    /\ ~sessions[RowOf(req[1].token)].is_used
    /\ req[1].status = 401 /\ req[1].issued = 0
    /\ \E i \in 1..Len(sessions) : sessions[i].is_used

\* ---------------------------------------------------------------------- C40
\* Reset token t was mailed to an address that was mailed a later token too.
Superseded(t) ==
    \E m, n \in outbox : m.token = t /\ n.to = m.to /\ n.token > t

\* Reset token t is the latest one mailed to its address.
LatestSent(t) ==
    \E m \in outbox : m.token = t /\ \A n \in outbox : n.to = m.to => n.token <= t

\* The step in which initiate_password_reset commits.
ForgotCommits(p) == req[p].pc = "f_commit" /\ req'[p].pc = "done"

\* C40: at most one reset token is valid per user at any time. The commit of an
\* initiateReset stores the hash of the token it mails, so that no token mailed
\* to the user earlier is held any more; a completeReset with a superseded token
\* is rejected and changes no user and no session; a completeReset with the
\* latest token, still held and not expired, goes on and commits the new password.
C40_OneValidResetToken ==
    /\ [][\A p \in Serial :
            /\ ForgotCommits(p)
                  => /\ users'[req[p].uid].password_reset_token = hash_token(req[p].gen)
                     /\ \A m \in outbox :
                           (m.to = users[req[p].uid].email /\ m.token # req[p].gen)
                              => ~TokenHeld(m.token)'
            /\ (Steps(p) /\ req[p].pc = "p_fetch" /\ Superseded(req[p].token))
                  => (/\ req'[p].pc = "done" /\ req'[p].status = 400
                      /\ req'[p].detail = "Invalid reset token"
                      /\ users' = users /\ sessions' = sessions)
            /\ (Steps(p) /\ req[p].pc = "p_fetch" /\ LatestSent(req[p].token)
                /\ \E u \in UserIds :
                      /\ users[u].password_reset_token = hash_token(req[p].token)
                      /\ ~users[u].deleted /\ ~ResetExpired(users[u], now))
                  => req'[p].pc = "p_revoke_read"
            /\ ResetCommits(p)
                  => (/\ req'[p].status = 200
                      /\ users'[req[p].uid].password_hash
                            = hash_password(req[p].new_password))]_vars
    /\ [](\A u \in UserIds :
            Cardinality({m \in outbox : m.to = users[u].email /\ TokenHeld(m.token)}) <= 1)

\* Two tokens were mailed to a@x; the completeReset with the first has just been
\* rejected, the password is the old one and the second token is still stored.
C40_Witness ==
    /\ Answered(1, "reset") /\ req[1].token = 1 /\ req[1].status = 400
    /\ \A t \in {1, 2} : \E m \in outbox : m.to = "a@x" /\ m.token = t
    /\ users[1].password_reset_token = hash_token(2)
    /\ users[1].password_hash = hash_password("good")

====
